---- MODULE Spec2Model ----
(***************************************************************************)
(* Light Bookmarks: BookmarkManager, CollectionManager and the import      *)
(* command, modelled as a state machine.                                   *)
(*                                                                         *)
(* Strings that the code takes apart (uris, workspace ids) are sequences   *)
(* of tokens: the token "file://" stands for a scheme with an empty        *)
(* authority, "/" is the path separator and every other token is one       *)
(* character.  Opaque strings (names, descriptions) are TLA+ strings.      *)
(* Collection ids are integers: 0 is the reserved id 'ungrouped-bookmarks',*)
(* a uuid is the next value of a counter, ids above 100 come from import   *)
(* files.  Dates are readings of a clock; in the behaviours below it stands *)
(* still (every object is made in the same millisecond), so that ties on   *)
(* createdAt are decided by the stable sort.                               *)
(***************************************************************************)
EXTENDS Integers, Sequences, FiniteSets, TLC

VARIABLES bookmarks, collections, nextId, nextCollectionId, now, folder, imp,
          storage, cmd, last

vars == <<bookmarks, collections, nextId, nextCollectionId, now, folder, imp,
          storage, cmd, last>>

(***************************************************************************)
(* Bounds                                                                  *)
(***************************************************************************)
MaxLine == 4
MaxIds == 4
MaxCollectionIds == 2
MaxCollections == 3
MaxBatch == 2
MaxSpan == 1
\* longest path of a uri handed to the export, in tokens
MaxPath == 4
\* most saves that are in flight at one time
MaxSaves == 2
\* the setting lightBookmarks.maxBookmarksPerFile of the window
maxBookmarksPerFile == 2

(***************************************************************************)
(* Program constants                                                       *)
(***************************************************************************)
UngroupedId == 0
OrderStep == 10

Scheme == "file://"
Undefined == <<"undefined">>
NoCid == -1
UngroupedLabel == "Ungrouped"

(***************************************************************************)
(* Input alphabets                                                         *)
(***************************************************************************)
FolderW == <<Scheme, "/", "w">>
FileIn == <<Scheme, "/", "w", "/", "f">>
FileOut == <<Scheme, "/", "z", "/", "g">>
Lines == 1..MaxLine
Folders == {Undefined, FolderW}
Names == {"n1", UngroupedLabel}
ForeignId == 101

(***************************************************************************)
(* Generic helpers                                                         *)
(***************************************************************************)
Min(S) == CHOOSE x \in S : \A y \in S : x <= y
Max(S) == CHOOSE x \in S : \A y \in S : x >= y
Range(s) == {s[i] : i \in DOMAIN s}
RemoveAt(s, i) == SubSeq(s, 1, i - 1) \o SubSeq(s, i + 1, Len(s))
Indices(s) == [i \in 1..Len(s) |-> i]

\* Array.prototype.sort: stable, Before is the comparator's "negative" case
StableSort(s, Before(_, _)) ==
  LET n == Len(s)
      pos(i) == Cardinality({j \in 1..n :
                   Before(s[j], s[i]) \/ (~Before(s[i], s[j]) /\ j < i)}) + 1
  IN [p \in 1..n |-> s[CHOOSE i \in 1..n : pos(i) = p]]

\* Array.prototype.findIndex, 0 for "not found"
FindIndex(s, Test(_)) ==
  LET S == {i \in 1..Len(s) : Test(s[i])}
  IN IF S = {} THEN 0 ELSE Min(S)

\* String.prototype.split(sep) for a one-token separator
RECURSIVE Split(_, _)
Split(s, sep) ==
  LET i == FindIndex(s, LAMBDA t : t = sep)
  IN IF i = 0 THEN <<s>>
     ELSE <<SubSeq(s, 1, i - 1)>> \o Split(SubSeq(s, i + 1, Len(s)), sep)

HasScheme(s) == s # Undefined /\ \E i \in 1..Len(s) : s[i] = Scheme
UriPath(u) == SelectSeq(u, LAMBDA t : t # Scheme)

(***************************************************************************)
(* CollectionManager                                                       *)
(***************************************************************************)
getRelativeWorkspaceId(workspaceUri) ==
  IF workspaceUri = Undefined THEN Undefined
  ELSE LET pathParts == SelectSeq(Split(UriPath(workspaceUri), "/"),
                                  LAMBDA part : Len(part) > 0)
       IN IF Len(pathParts) = 0 THEN Undefined
          ELSE pathParts[Len(pathParts)]

\* the conversion every CollectionManager method opens with
RelativeWorkspaceId(workspaceId) ==
  IF workspaceId # Undefined /\ HasScheme(workspaceId)
  THEN getRelativeWorkspaceId(workspaceId)
  ELSE workspaceId

getCurrentWorkspaceId(f) == getRelativeWorkspaceId(f)

Collection(id, name, workspaceId, order, createdAt) ==
  [id |-> id, name |-> name, workspaceId |-> workspaceId,
   createdAt |-> createdAt, order |-> order]

getCollection(cs, id) == FindIndex(cs, LAMBDA c : c.id = id)

\* indices of the scope's collections, sorted by order
WorkspaceCollections(cs, ws) ==
  StableSort(SelectSeq(Indices(cs), LAMBDA i : cs[i].workspaceId = ws),
             LAMBDA i, j : cs[i].order < cs[j].order)

getCollectionsForWorkspace(cs, workspaceId) ==
  WorkspaceCollections(cs, RelativeWorkspaceId(workspaceId))

\* a variant that numbers by the size of the scope instead of its largest order
getNextOrderForWorkspaceCount(cs, workspaceId) ==
  LET ws == RelativeWorkspaceId(workspaceId)
  IN Cardinality({i \in 1..Len(cs) : cs[i].workspaceId = ws})

getNextOrderForWorkspace(cs, workspaceId) ==
  LET ws == RelativeWorkspaceId(workspaceId)
      S == {i \in 1..Len(cs) : cs[i].workspaceId = ws}
  IN IF S = {} THEN 0 ELSE Max({cs[i].order : i \in S}) + 1

hasCollectionByName(cs, name, workspaceId) ==
  \E i \in 1..Len(cs) : cs[i].name = name
                        /\ cs[i].workspaceId = RelativeWorkspaceId(workspaceId)

\* a variant that compares and stores the workspace as it was given
createCollectionUnconverted(cs, name, workspaceId, id, t) ==
  LET existing == FindIndex(cs, LAMBDA c : c.name = name
                                           /\ c.workspaceId = workspaceId)
  IN IF existing # 0 THEN [c |-> cs, ret |-> 0]
     ELSE [c |-> Append(cs, Collection(id, name, workspaceId,
                                       getNextOrderForWorkspace(cs, workspaceId),
                                       t)),
           ret |-> Len(cs) + 1]

\* result: the new list and the index of the returned object (0 for null)
createCollection(cs, name, workspaceId, id, t) ==
  LET ws == RelativeWorkspaceId(workspaceId)
      existing == FindIndex(cs, LAMBDA c : c.name = name /\ c.workspaceId = ws)
  IN IF existing # 0 THEN [c |-> cs, ret |-> 0]
     ELSE [c |-> Append(cs, Collection(id, name, ws,
                                       getNextOrderForWorkspace(cs, ws), t)),
           ret |-> Len(cs) + 1]

deleteCollection(cs, id) ==
  LET index == getCollection(cs, id)
  IN IF index = 0 THEN [c |-> cs, ret |-> FALSE]
     ELSE [c |-> RemoveAt(cs, index), ret |-> TRUE]

addCollection(cs, collection) ==
  IF getCollection(cs, collection.id) # 0 THEN cs ELSE Append(cs, collection)

clearCollectionsForWorkspace(cs, workspaceId) ==
  SelectSeq(cs, LAMBDA c : c.workspaceId # RelativeWorkspaceId(workspaceId))

ensureUngroupedCollection(cs, workspaceId, t) ==
  LET ws == RelativeWorkspaceId(workspaceId)
      existing == FindIndex(cs, LAMBDA c : c.id = UngroupedId /\ c.workspaceId = ws)
  IN IF existing # 0 THEN [c |-> cs, ret |-> existing]
     ELSE [c |-> Append(cs, Collection(UngroupedId, UngroupedLabel, ws, 0, t)),
           ret |-> Len(cs) + 1]

\* forEach((col, idx) => col.order = idx) over the sorted siblings
Renumber(list, sorted, step) ==
  [i \in 1..Len(list) |->
     IF \E p \in 1..Len(sorted) : sorted[p] = i
     THEN [list[i] EXCEPT !.order =
             step * ((CHOOSE p \in 1..Len(sorted) : sorted[p] = i) - 1)]
     ELSE list[i]]

SwapOrder(list, i, j) ==
  [list EXCEPT ![i].order = list[j].order, ![j].order = list[i].order]

\* mutant: the order values are swapped but not re-normalized
moveCollectionNoRenumber(cs, collectionId, delta) ==
  LET ci == getCollection(cs, collectionId)
  IN IF ci = 0 THEN [c |-> cs, ret |-> FALSE]
     ELSE
       LET siblings == WorkspaceCollections(cs, cs[ci].workspaceId)
           currentIndex == FindIndex(siblings, LAMBDA i : cs[i].id = collectionId)
           atBoundary == IF delta < 0 THEN currentIndex <= 1
                         ELSE currentIndex = 0 \/ currentIndex >= Len(siblings)
       IN IF atBoundary THEN [c |-> cs, ret |-> FALSE]
          ELSE [c |-> SwapOrder(cs, ci, siblings[currentIndex + delta]),
                ret |-> TRUE]

moveCollection(cs, collectionId, delta) ==
  LET ci == getCollection(cs, collectionId)
  IN IF ci = 0 THEN [c |-> cs, ret |-> FALSE]
     ELSE
       LET siblings == WorkspaceCollections(cs, cs[ci].workspaceId)
           currentIndex == FindIndex(siblings, LAMBDA i : cs[i].id = collectionId)
           atBoundary == IF delta < 0 THEN currentIndex <= 1
                         ELSE currentIndex = 0 \/ currentIndex >= Len(siblings)
       IN IF atBoundary THEN [c |-> cs, ret |-> FALSE]
          ELSE
            LET swapped == SwapOrder(cs, ci, siblings[currentIndex + delta])
                resorted == StableSort(siblings,
                              LAMBDA i, j : swapped[i].order < swapped[j].order)
            IN [c |-> Renumber(swapped, resorted, 1), ret |-> TRUE]

moveCollectionUp(cs, collectionId) == moveCollection(cs, collectionId, -1)
moveCollectionDown(cs, collectionId) == moveCollection(cs, collectionId, 1)

(***************************************************************************)
(* BookmarkManager.  A manager state st holds the bookmark list b, the     *)
(* collection list c of the CollectionManager it was constructed with, the *)
(* uuid counter id, the clock t and the first workspace folder f.          *)
(***************************************************************************)
Bookmark(id, uri, line, collectionId, description, createdAt, order) ==
  [id |-> id, uri |-> uri, line |-> line, collectionId |-> collectionId,
   description |-> description, createdAt |-> createdAt, order |-> order]

getBookmark(bs, uri, line) ==
  FindIndex(bs, LAMBDA b : b.uri = uri /\ b.line = line)

hasBookmark(bs, uri, line) == getBookmark(bs, uri, line) # 0

getBookmarksByUri(bs, uri) ==
  SelectSeq(Indices(bs), LAMBDA i : bs[i].uri = uri)

\* indices of the collection's bookmarks, by order, then by createdAt
getBookmarksByCollection(bs, collectionId) ==
  StableSort(SelectSeq(Indices(bs), LAMBDA i : bs[i].collectionId = collectionId),
             LAMBDA i, j : \/ bs[i].order < bs[j].order
                           \/ /\ bs[i].order = bs[j].order
                              /\ bs[i].createdAt < bs[j].createdAt)

\* the part of addBookmark after its two checks
AppendBookmark(st, uri, line, collectionId, description) ==
  LET realCollectionId == IF collectionId = NoCid THEN UngroupedId
                          ELSE collectionId
      cs == IF realCollectionId = UngroupedId
            THEN ensureUngroupedCollection(st.c, st.f, st.t).c
            ELSE st.c
      order == Len(getBookmarksByCollection(st.b, realCollectionId)) * OrderStep
      bookmark == Bookmark(st.id, uri, line, realCollectionId, description,
                           st.t, order)
  IN [st EXCEPT !.b = Append(st.b, bookmark), !.c = cs, !.id = st.id + 1,
                !.ret = Len(st.b) + 1]

\* mutant: the check for an existing bookmark is left out
addBookmarkNoDuplicateCheck(st, uri, line, collectionId, description) ==
  IF Len(getBookmarksByUri(st.b, uri)) >= maxBookmarksPerFile
  THEN [st EXCEPT !.ret = 0]
  ELSE AppendBookmark(st, uri, line, collectionId, description)

\* mutant: the file is full only when it holds more than the maximum
addBookmarkCapacityOffByOne(st, uri, line, collectionId, description) ==
  IF hasBookmark(st.b, uri, line) THEN [st EXCEPT !.ret = 0]
  ELSE IF Len(getBookmarksByUri(st.b, uri)) > maxBookmarksPerFile
  THEN [st EXCEPT !.ret = 0]
  ELSE AppendBookmark(st, uri, line, collectionId, description)

\* ret: the index of the new bookmark, 0 for null
addBookmark(st, uri, line, collectionId, description) ==
  IF hasBookmark(st.b, uri, line) THEN [st EXCEPT !.ret = 0]
  ELSE IF Len(getBookmarksByUri(st.b, uri)) >= maxBookmarksPerFile
  THEN [st EXCEPT !.ret = 0]
  ELSE AppendBookmark(st, uri, line, collectionId, description)

removeBookmark(st, uri, line) ==
  LET index == getBookmark(st.b, uri, line)
  IN IF index = 0 THEN [st EXCEPT !.ret = 0]
     ELSE [st EXCEPT !.b = RemoveAt(st.b, index), !.ret = 1]

\* a variant that never removes
toggleBookmarkAddOnly(st, uri, line, collectionId) ==
  addBookmark(st, uri, line,
              IF collectionId = NoCid THEN UngroupedId ELSE collectionId, "")

toggleBookmark(st, uri, line, collectionId) ==
  IF hasBookmark(st.b, uri, line)
  THEN [removeBookmark(st, uri, line) EXCEPT !.ret = 0]
  ELSE addBookmark(st, uri, line,
                   IF collectionId = NoCid THEN UngroupedId ELSE collectionId, "")

updateBookmarkDescription(st, uri, line, description) ==
  LET index == getBookmark(st.b, uri, line)
  IN IF index = 0 THEN [st EXCEPT !.ret = 0]
     ELSE [st EXCEPT !.b[index].description = description, !.ret = 1]

\* mutant: the order values are swapped but not re-normalized
moveBookmarkNoRenumber(st, uri, line, delta) ==
  LET bi == getBookmark(st.b, uri, line)
  IN IF bi = 0 \/ st.b[bi].collectionId = NoCid THEN [st EXCEPT !.ret = 0]
     ELSE
       LET siblings == getBookmarksByCollection(st.b, st.b[bi].collectionId)
           currentIndex == FindIndex(siblings, LAMBDA i : i = bi)
           atBoundary == IF delta < 0 THEN currentIndex <= 1
                         ELSE currentIndex = 0 \/ currentIndex >= Len(siblings)
       IN IF atBoundary THEN [st EXCEPT !.ret = 0]
          ELSE [st EXCEPT !.b = SwapOrder(st.b, bi, siblings[currentIndex + delta]),
                          !.ret = 1]

moveBookmark(st, uri, line, delta) ==
  LET bi == getBookmark(st.b, uri, line)
  IN IF bi = 0 \/ st.b[bi].collectionId = NoCid THEN [st EXCEPT !.ret = 0]
     ELSE
       LET siblings == getBookmarksByCollection(st.b, st.b[bi].collectionId)
           currentIndex == FindIndex(siblings, LAMBDA i : i = bi)
           atBoundary == IF delta < 0 THEN currentIndex <= 1
                         ELSE currentIndex = 0 \/ currentIndex >= Len(siblings)
       IN IF atBoundary THEN [st EXCEPT !.ret = 0]
          ELSE
            LET swapped == SwapOrder(st.b, bi, siblings[currentIndex + delta])
                resorted == StableSort(siblings,
                              LAMBDA i, j : swapped[i].order < swapped[j].order)
            IN [st EXCEPT !.b = Renumber(swapped, resorted, OrderStep), !.ret = 1]

moveBookmarkUp(st, uri, line) == moveBookmark(st, uri, line, -1)
moveBookmarkDown(st, uri, line) == moveBookmark(st, uri, line, 1)

\* one content change: the range's first and last line and the new text
NewLineToken == "\\n"
LinesAdded(text) ==
  IF text = <<>> THEN 0 ELSE Len(Split(text, NewLineToken)) - 1
LinesRemoved(change) == change.endLine - change.startLine
\* a variant that counts the end line among the lines removed
NewLineCountingEndLine(bookmarkLine, change) ==
  bookmarkLine - (LinesRemoved(change) + 1) + LinesAdded(change.text)

NewLine(bookmarkLine, change) ==
  bookmarkLine - LinesRemoved(change) + LinesAdded(change.text)

\* what one change pushes onto bookmarksToRemove, given the file's lines
ToRemove(lines, change) ==
  SelectSeq(lines, LAMBDA l :
    /\ l >= change.startLine
    /\ \/ l <= change.endLine
       \/ NewLine(l, change) < 0)

\* what one change pushes onto bookmarksToUpdate
ToUpdate(lines, change) ==
  LET moved == SelectSeq(lines, LAMBDA l :
                 l > change.endLine /\ NewLine(l, change) >= 0)
  IN [k \in 1..Len(moved) |->
        [oldLine |-> moved[k], newLine |-> NewLine(moved[k], change)]]

RECURSIVE bookmarksToRemove(_, _)
bookmarksToRemove(lines, contentChanges) ==
  IF contentChanges = <<>> THEN <<>>
  ELSE ToRemove(lines, Head(contentChanges))
       \o bookmarksToRemove(lines, Tail(contentChanges))

RECURSIVE bookmarksToUpdate(_, _)
bookmarksToUpdate(lines, contentChanges) ==
  IF contentChanges = <<>> THEN <<>>
  ELSE ToUpdate(lines, Head(contentChanges))
       \o bookmarksToUpdate(lines, Tail(contentChanges))

RECURSIVE ApplyRemovals(_, _, _)
ApplyRemovals(st, uri, removals) ==
  IF removals = <<>> THEN st
  ELSE ApplyRemovals(removeBookmark(st, uri, Head(removals)), uri, Tail(removals))

\* a variant that adds the moved bookmark back without its description
RECURSIVE ApplyUpdatesDroppingDescription(_, _, _)
ApplyUpdatesDroppingDescription(st, uri, updates) ==
  IF updates = <<>> THEN st
  ELSE
    LET update == Head(updates)
        index == getBookmark(st.b, uri, update.oldLine)
        next == IF index = 0 THEN st
                ELSE addBookmark(removeBookmark(st, uri, update.oldLine),
                                 uri, update.newLine,
                                 st.b[index].collectionId, "")
    IN ApplyUpdatesDroppingDescription(next, uri, Tail(updates))

RECURSIVE ApplyUpdates(_, _, _)
ApplyUpdates(st, uri, updates) ==
  IF updates = <<>> THEN st
  ELSE
    LET update == Head(updates)
        index == getBookmark(st.b, uri, update.oldLine)
        next == IF index = 0 THEN st
                ELSE addBookmark(removeBookmark(st, uri, update.oldLine),
                                 uri, update.newLine,
                                 st.b[index].collectionId,
                                 st.b[index].description)
    IN ApplyUpdates(next, uri, Tail(updates))

\* result: the state, with ret = <<removed, updated>>
updateBookmarksForDocumentChanges(st, uri, contentChanges) ==
  LET bookmarksInFile == getBookmarksByUri(st.b, uri)
      lines == [k \in 1..Len(bookmarksInFile) |-> st.b[bookmarksInFile[k]].line]
      removals == bookmarksToRemove(lines, contentChanges)
      updates == bookmarksToUpdate(lines, contentChanges)
  IN IF Len(bookmarksInFile) = 0 THEN [st EXCEPT !.ret = <<0, 0>>]
     ELSE [ApplyUpdates(ApplyRemovals(st, uri, removals), uri, updates)
             EXCEPT !.ret = <<Len(removals), Len(updates)>>]

\* a variant of removeBookmark's notification that is also made when no
\* bookmark was found
NotifiedByRemoveAlways(st, uri, line) == <<removeBookmark(st, uri, line).b>>

\* notifyBookmarksChanged: the callback runs inside removeBookmark and
\* addBookmark, after the list has changed, and reads the list as it is then
NotifiedByRemove(st, uri, line) ==
  IF getBookmark(st.b, uri, line) = 0 THEN <<>>
  ELSE <<removeBookmark(st, uri, line).b>>

NotifiedByAdd(st, uri, line, collectionId, description) ==
  LET added == addBookmark(st, uri, line, collectionId, description)
  IN IF added.b = st.b THEN <<>> ELSE <<added.b>>

\* updateBookmarkDescription returns false before it notifies
NotifiedByUpdate(st, uri, line, description) ==
  IF getBookmark(st.b, uri, line) = 0 THEN <<>>
  ELSE <<updateBookmarkDescription(st, uri, line, description).b>>

\* moveBookmarkUp / moveBookmarkDown return false before they notify
NotifiedByMove(st, uri, line, delta) ==
  LET moved == moveBookmark(st, uri, line, delta)
  IN IF moved.ret = 0 THEN <<>> ELSE <<moved.b>>

\* the lists the callback reads during the loop over bookmarksToRemove
RECURSIVE NotifiedByRemovals(_, _, _)
NotifiedByRemovals(st, uri, removals) ==
  IF removals = <<>> THEN <<>>
  ELSE NotifiedByRemove(st, uri, Head(removals))
       \o NotifiedByRemovals(removeBookmark(st, uri, Head(removals)), uri,
                             Tail(removals))

\* the lists the callback reads during the loop over bookmarksToUpdate
RECURSIVE NotifiedByUpdates(_, _, _)
NotifiedByUpdates(st, uri, updates) ==
  IF updates = <<>> THEN <<>>
  ELSE
    LET update == Head(updates)
        index == getBookmark(st.b, uri, update.oldLine)
        removed == removeBookmark(st, uri, update.oldLine)
    IN IF index = 0
       THEN NotifiedByUpdates(st, uri, Tail(updates))
       ELSE NotifiedByRemove(st, uri, update.oldLine)
            \o NotifiedByAdd(removed, uri, update.newLine,
                             st.b[index].collectionId, st.b[index].description)
            \o NotifiedByUpdates(ApplyUpdates(st, uri, <<update>>), uri,
                                 Tail(updates))

\* the bookmark lists that the onBookmarksChanged callback reads, in order,
\* during one call of updateBookmarksForDocumentChanges
NotifiedDuringReconcile(st, uri, contentChanges) ==
  LET bookmarksInFile == getBookmarksByUri(st.b, uri)
      lines == [k \in 1..Len(bookmarksInFile) |-> st.b[bookmarksInFile[k]].line]
      removals == bookmarksToRemove(lines, contentChanges)
      updates == bookmarksToUpdate(lines, contentChanges)
  IN IF Len(bookmarksInFile) = 0 THEN <<>>
     ELSE NotifiedByRemovals(st, uri, removals)
          \o NotifiedByUpdates(ApplyRemovals(st, uri, removals), uri, updates)

(***************************************************************************)
(* GoToNextBookmarkCommand                                                 *)
(***************************************************************************)
\* the UTF-16 code units of the characters of the uris, by which > compares
\* two strings (the scheme token stands for the same characters in every uri)
CodeUnit == (Scheme :> 0) @@ ("/" :> 47) @@ ("B" :> 66) @@ ("a" :> 97)
            @@ ("w" :> 119)
\* the collation ranks of the same characters, by which localeCompare
\* compares: punctuation first, then letters in alphabetical order whatever
\* their case
CollationRank == (Scheme :> 0) @@ ("/" :> 1) @@ ("a" :> 2) @@ ("B" :> 3)
                 @@ ("w" :> 4)

\* one string is before another, character by character, under a ranking
RECURSIVE Before(_, _, _)
Before(rank, s, t) ==
  IF t = <<>> THEN FALSE
  ELSE IF s = <<>> THEN TRUE
  ELSE IF Head(s) # Head(t) THEN rank[Head(s)] < rank[Head(t)]
  ELSE Before(rank, Tail(s), Tail(t))

\* allBookmarks.sort(...): by a.uri.localeCompare(b.uri), then by line
sortedBookmarks(bs) ==
  StableSort(Indices(bs),
             LAMBDA i, j : IF bs[i].uri # bs[j].uri
                           THEN Before(CollationRank, bs[i].uri, bs[j].uri)
                           ELSE bs[i].line < bs[j].line)

NoEditor == [uri |-> Undefined, line |-> 0]

\* the index of the bookmark that execute navigates to, 0 when there is none
nextBookmark(bs, editor) ==
  LET sorted == sortedBookmarks(bs)
      found == FindIndex(sorted, LAMBDA i :
                 IF bs[i].uri # editor.uri
                 THEN Before(CodeUnit, editor.uri, bs[i].uri)
                 ELSE bs[i].line > editor.line)
  IN IF bs = <<>> THEN 0
     ELSE IF editor = NoEditor \/ found = 0 THEN sorted[1]
     ELSE sorted[found]

(***************************************************************************)
(* ImportBookmarksCommand                                                  *)
(***************************************************************************)
IsPrefix(p, s) == Len(p) <= Len(s) /\ SubSeq(s, 1, Len(p)) = p

\* fsPath of a file uri: what follows the scheme
isBookmarkInCurrentWorkspace(f, bookmark) ==
  /\ f # Undefined
  /\ IsPrefix(UriPath(f), UriPath(bookmark.uri))

clearBookmarksForWorkspace(f, bs) ==
  SelectSeq(bs, LAMBDA b : ~isBookmarkInCurrentWorkspace(f, b))

\* vscode.Uri.joinPath(workspaceUri, path).toString()
JoinPath(base, path) ==
  IF path # <<>> /\ Head(path) = "/" THEN base \o path ELSE base \o <<"/">> \o path

makeUriAbsolute(f, uriOrPath) ==
  IF HasScheme(uriOrPath) THEN uriOrPath
  ELSE IF f = Undefined
  THEN IF uriOrPath # <<>> /\ Head(uriOrPath) = "/"
       THEN <<Scheme>> \o uriOrPath
       ELSE uriOrPath
  ELSE JoinPath(f, uriOrPath)

\* What validateImportData looks at: for the parsed value, each of its four
\* top-level keys and each key of each entry, the answer of typeof
\* ("undefined" for a key that is absent, "array" for Array.isArray).
TopLevelValid(data) ==
  /\ data.type = "object"
  /\ data.version # "undefined"
  /\ data.exportDate # "undefined"
  /\ data.bookmarks # "undefined"
  /\ data.collections # "undefined"
  /\ data.version = "string"
  /\ data.exportDate = "string"
  /\ data.bookmarks = "array"
  /\ data.collections = "array"

\* a variant that does not look into the entries of the two arrays
validateImportDataTopLevelOnly(data) == TopLevelValid(data)

validateImportData(data) ==
  /\ TopLevelValid(data)
  /\ \A k \in 1..Len(data.bookmarkEntries) :
       LET bookmark == data.bookmarkEntries[k]
       IN /\ bookmark.type = "object"
          /\ bookmark.uri # "undefined"
          /\ bookmark.line # "undefined"
          /\ bookmark.createdAt # "undefined"
          /\ bookmark.uri = "string"
          /\ bookmark.line = "number"
          /\ bookmark.createdAt = "string"
  /\ \A k \in 1..Len(data.collectionEntries) :
       LET collection == data.collectionEntries[k]
       IN /\ collection.type = "object"
          /\ collection.id # "undefined"
          /\ collection.name # "undefined"
          /\ collection.createdAt # "undefined"
          /\ collection.id = "string"
          /\ collection.name = "string"
          /\ collection.createdAt = "string"

NoOrder == -1

\* a variant whose merge mode counts the collections it skips
RECURSIVE ImportCollectionsCountingSkipped(_, _, _, _, _)
ImportCollectionsCountingSkipped(cs, f, mode, entries, acc) ==
  IF entries = <<>> THEN [c |-> cs, importedCollections |-> acc]
  ELSE
    LET collectionData == Head(entries)
        collection == Collection(collectionData.id, collectionData.name,
                                 getCurrentWorkspaceId(f),
                                 IF collectionData.order = NoOrder THEN 0
                                 ELSE collectionData.order,
                                 collectionData.createdAt)
    IN ImportCollectionsCountingSkipped(addCollection(cs, collection), f, mode,
                                        Tail(entries), acc + 1)

\* the loop over importData.collections; acc counts importedCollections
RECURSIVE ImportCollections(_, _, _, _, _)
ImportCollections(cs, f, mode, entries, acc) ==
  IF entries = <<>> THEN [c |-> cs, importedCollections |-> acc]
  ELSE
    LET collectionData == Head(entries)
        collection == Collection(collectionData.id, collectionData.name,
                                 getCurrentWorkspaceId(f),
                                 IF collectionData.order = NoOrder THEN 0
                                 ELSE collectionData.order,
                                 collectionData.createdAt)
    IN IF mode = "merge" /\ getCollection(cs, collectionData.id) # 0
       THEN ImportCollections(cs, f, mode, Tail(entries), acc)
       ELSE ImportCollections(addCollection(cs, collection), f, mode,
                              Tail(entries), acc + 1)

\* one turn of the loop over importData.bookmarks, after fileExists resolved;
\* ret = 1 when the bookmark was counted as imported, skipped = 1 when the file
\* does not exist
ImportBookmark(st, mode, bookmarkData, fileExists) ==
  LET absoluteUri == makeUriAbsolute(st.f, bookmarkData.uri)
  IN IF ~fileExists THEN [st EXCEPT !.ret = 0]
     ELSE IF mode = "merge" /\ hasBookmark(st.b, absoluteUri, bookmarkData.line)
     THEN [st EXCEPT !.ret = 0]
     ELSE
       LET collectionId == IF bookmarkData.collectionId = NoCid THEN UngroupedId
                           ELSE bookmarkData.collectionId
           added == addBookmark(st, absoluteUri, bookmarkData.line, collectionId,
                                bookmarkData.description)
       IN IF added.ret = 0 THEN added
          ELSE [added EXCEPT
                  !.b[added.ret].order =
                     IF bookmarkData.order = NoOrder THEN @ ELSE bookmarkData.order,
                  !.b[added.ret].createdAt = bookmarkData.createdAt,
                  !.ret = 1]

(***************************************************************************)
(* ExportBookmarksCommand                                                  *)
(***************************************************************************)
\* the path below the workspace folder without its leading slash, for a uri
\* under the folder; any other uri as it is
makeUriRelative(f, absoluteUri) ==
  IF f = Undefined THEN absoluteUri
  ELSE IF IsPrefix(UriPath(f), UriPath(absoluteUri))
  THEN LET relativePath == SubSeq(UriPath(absoluteUri), Len(UriPath(f)) + 1,
                                  Len(UriPath(absoluteUri)))
       IN IF relativePath # <<>> /\ Head(relativePath) = "/"
          THEN Tail(relativePath) ELSE relativePath
  ELSE absoluteUri

\* the exported object: what is written for each bookmark and each collection
exportData(bs, cs, f) ==
  [bookmarks |-> [k \in 1..Len(bs) |->
      [uri |-> makeUriRelative(f, bs[k].uri), line |-> bs[k].line,
       description |-> bs[k].description, collectionId |-> bs[k].collectionId,
       order |-> bs[k].order, createdAt |-> bs[k].createdAt]],
   collections |-> [k \in 1..Len(cs) |->
      [id |-> cs[k].id, name |-> cs[k].name, workspaceId |-> cs[k].workspaceId,
       order |-> cs[k].order, createdAt |-> cs[k].createdAt]]]

\* the loop over importData.bookmarks when every file exists
RECURSIVE ImportBookmarks(_, _, _)
ImportBookmarks(st, mode, entries) ==
  IF entries = <<>> THEN st
  ELSE ImportBookmarks(ImportBookmark(st, mode, Head(entries), TRUE), mode,
                       Tail(entries))

\* the export of st, imported in merge mode by managers that hold nothing
ExportThenImport(st) ==
  LET file == exportData(st.b, st.c, st.f)
      cs == ImportCollections(<<>>, st.f, "merge", file.collections, 0).c
  IN ImportBookmarks([st EXCEPT !.b = <<>>, !.c = cs], "merge", file.bookmarks)

(***************************************************************************)
(* The state machine                                                       *)
(***************************************************************************)
St == [b |-> bookmarks, c |-> collections, id |-> nextId, t |-> now,
       f |-> folder, ret |-> 0]

Texts == {<<>>, <<"x">>, <<"x", NewLineToken>>}
Changes == {[startLine |-> s, endLine |-> e, text |-> x] :
              s \in 0..(MaxLine - 1), e \in 0..(MaxLine - 1), x \in Texts}
ValidChanges == {ch \in Changes : ch.startLine <= ch.endLine
                                  /\ ch.endLine - ch.startLine <= MaxSpan}
Batches == UNION {[1..n -> ValidChanges] : n \in 1..MaxBatch}

Key(uri, line) == [uri |-> uri, line |-> line]
FewKeys == {Key(FileIn, 1), Key(FileIn, 2), Key(FileOut, 1)}
\* insert a line at the top; delete line 1; edit line 2 in place
FewBatches == {<<[startLine |-> 0, endLine |-> 0, text |-> <<"x", NewLineToken>>]>>,
               <<[startLine |-> 0, endLine |-> 1, text |-> <<>>]>>,
               <<[startLine |-> 2, endLine |-> 2, text |-> <<"x">>]>>}
CollectionIdInputs == {UngroupedId, 1, 2, ForeignId}

NoArgs == [none |-> TRUE]
Last(op, a, ret) == [op |-> op, a |-> a, ret |-> ret]

InBounds(st) ==
  /\ st.id <= MaxIds + 1
  /\ Len(st.c) <= MaxCollections
  /\ \A i \in 1..Len(st.b) : st.b[i].line <= MaxLine

Idle == [pc |-> "idle"]

\* the storage behind StorageService: the two persisted lists and the saves
\* that have been issued and have not completed yet, in the order of issue
EmptyStorage == [bookmarks |-> <<>>, collections |-> <<>>, inflight |-> <<>>]

\* the managers after construction, in a window whose first workspace folder
\* is one of folders
InitIn(folders) ==
  /\ bookmarks = <<>>
  /\ collections = <<>>
  /\ nextId = 1
  /\ nextCollectionId = 1
  /\ now = 0
  /\ folder \in folders
  /\ imp = Idle
  /\ storage = EmptyStorage
  /\ cmd = Idle
  /\ last = Last("init", NoArgs, 0)

Init == InitIn(Folders)

\* the bookmark manager's part of a step
Commit(st, l) ==
  /\ InBounds(st)
  /\ bookmarks' = st.b
  /\ collections' = st.c
  /\ nextId' = st.id
  /\ last' = l
  /\ UNCHANGED <<nextCollectionId, now, folder, imp, storage, cmd>>

\* the collection manager's part of a step
CommitCollections(cs, l) ==
  /\ Len(cs) <= MaxCollections
  /\ collections' = cs
  /\ last' = l
  /\ UNCHANGED <<bookmarks, nextId, now, folder, imp, storage, cmd>>

AddBookmarkOp(keys, cids, descriptions) ==
  \E k \in keys, cid \in cids, d \in descriptions :
    LET st == addBookmark(St, k.uri, k.line, cid, d)
    IN Commit(st, Last("addBookmark",
                       [uri |-> k.uri, line |-> k.line, collectionId |-> cid],
                       st.ret))

RemoveBookmarkOp(keys) ==
  \E k \in keys :
    LET st == removeBookmark(St, k.uri, k.line)
    IN Commit(st, Last("removeBookmark", k, st.ret))

ToggleBookmarkOp(keys, cids) ==
  \E k \in keys, cid \in cids :
    LET st == toggleBookmark(St, k.uri, k.line, cid)
    IN Commit(st, Last("toggleBookmark",
                       [uri |-> k.uri, line |-> k.line, collectionId |-> cid],
                       st.ret))

UpdateBookmarkDescriptionOp(keys, descriptions) ==
  \E k \in keys, d \in descriptions :
    LET st == updateBookmarkDescription(St, k.uri, k.line, d)
    IN Commit(st, Last("updateBookmarkDescription", k, st.ret))

MoveBookmarkUpOp(keys) ==
  \E k \in keys :
    LET st == moveBookmarkUp(St, k.uri, k.line)
    IN Commit(st, Last("moveBookmarkUp", k, st.ret))

MoveBookmarkDownOp(keys) ==
  \E k \in keys :
    LET st == moveBookmarkDown(St, k.uri, k.line)
    IN Commit(st, Last("moveBookmarkDown", k, st.ret))

UpdateBookmarksForDocumentChangesOp(uris, batches) ==
  \E uri \in uris, batch \in batches :
    LET st == updateBookmarksForDocumentChanges(St, uri, batch)
    IN Commit([st EXCEPT !.ret = 0],
              Last("updateBookmarksForDocumentChanges",
                   [uri |-> uri, contentChanges |-> batch,
                    removed |-> st.ret[1], updated |-> st.ret[2]],
                   st.ret[1] + st.ret[2]))

CreateCollectionOp(names, workspaces) ==
  \E name \in names, ws \in workspaces :
    LET r == createCollection(collections, name, ws, nextCollectionId, now)
    IN /\ nextCollectionId <= MaxCollectionIds
       /\ nextCollectionId' = IF r.ret = 0 THEN nextCollectionId
                               ELSE nextCollectionId + 1
       /\ CommitCollections(r.c, Last("createCollection",
                                      [name |-> name, workspaceId |-> ws], r.ret))

\* the caller builds the object: new Collection(name, workspaceId, order), and
\* either keeps the generated uuid or overrides it with a stored id
AddCollectionOp(names, workspaces) ==
  \E id \in {nextCollectionId, UngroupedId, ForeignId}, name \in names,
     ws \in workspaces, order \in 0..1 :
    LET cs == addCollection(collections, Collection(id, name, ws, order, now))
    IN /\ nextCollectionId <= MaxCollectionIds
       /\ nextCollectionId' = nextCollectionId + 1
       /\ CommitCollections(cs, Last("addCollection",
                                     [id |-> id, name |-> name, workspaceId |-> ws],
                                     IF cs = collections THEN 0 ELSE Len(cs)))

DeleteCollectionOp ==
  \E id \in CollectionIdInputs :
    LET r == deleteCollection(collections, id)
    IN /\ UNCHANGED nextCollectionId
       /\ CommitCollections(r.c, Last("deleteCollection", [id |-> id],
                                      IF r.ret THEN 1 ELSE 0))

EnsureUngroupedCollectionOp(workspaces) ==
  \E ws \in workspaces :
    LET r == ensureUngroupedCollection(collections, ws, now)
    IN /\ UNCHANGED nextCollectionId
       /\ CommitCollections(r.c, Last("ensureUngroupedCollection",
                                      [workspaceId |-> ws], r.ret))

MoveCollectionUpOp ==
  \E id \in CollectionIdInputs :
    LET r == moveCollectionUp(collections, id)
    IN /\ UNCHANGED nextCollectionId
       /\ CommitCollections(r.c, Last("moveCollectionUp", [id |-> id],
                                      IF r.ret THEN 1 ELSE 0))

MoveCollectionDownOp ==
  \E id \in CollectionIdInputs :
    LET r == moveCollectionDown(collections, id)
    IN /\ UNCHANGED nextCollectionId
       /\ CommitCollections(r.c, Last("moveCollectionDown", [id |-> id],
                                      IF r.ret THEN 1 ELSE 0))

\* from the answer to the import-mode question to the first wait for
\* fileExistsInCurrentWorkspace (or to the end, when the file holds no bookmarks)
ImportBeginOp(files, modes) ==
  \E file \in files, mode \in modes :
    LET cleared == IF mode = "replace"
                   THEN [b |-> clearBookmarksForWorkspace(folder, bookmarks),
                         c |-> clearCollectionsForWorkspace(
                                 collections, getCurrentWorkspaceId(folder))]
                   ELSE [b |-> bookmarks, c |-> collections]
        r == ImportCollections(cleared.c, folder, mode, file.collections, 0)
        counts == [importedCollections |-> r.importedCollections,
                   importedBookmarks |-> 0, skippedBookmarks |-> 0]
    IN /\ imp.pc = "idle"
       /\ Len(r.c) <= MaxCollections
       /\ bookmarks' = cleared.b
       /\ collections' = r.c
       /\ IF file.bookmarks = <<>>
          THEN /\ imp' = Idle
               /\ last' = Last("import", [mode |-> mode, counts |-> counts], 1)
          ELSE /\ imp' = [pc |-> "bookmarks", mode |-> mode,
                          rest |-> file.bookmarks, counts |-> counts]
               /\ last' = Last("importBegin", [mode |-> mode], 1)
       /\ UNCHANGED <<nextId, nextCollectionId, now, folder, storage, cmd>>

\* fileExistsInCurrentWorkspace resolves for the next bookmark of the file; after
\* the last one the command goes on to save and report
ImportBookmarkOp ==
  \E fileExists \in BOOLEAN :
    LET st == ImportBookmark(St, imp.mode, Head(imp.rest), fileExists)
        counts == [imp.counts EXCEPT
                     !.importedBookmarks = @ + st.ret,
                     !.skippedBookmarks = @ + (IF fileExists THEN 0 ELSE 1)]
    IN /\ imp.pc = "bookmarks"
       /\ InBounds(st)
       /\ bookmarks' = st.b
       /\ collections' = st.c
       /\ nextId' = st.id
       /\ IF Tail(imp.rest) = <<>>
          THEN /\ imp' = Idle
               /\ last' = Last("import", [mode |-> imp.mode, counts |-> counts], 1)
          ELSE /\ imp' = [imp EXCEPT !.rest = Tail(imp.rest), !.counts = counts]
               /\ last' = Last("importBookmark", [mode |-> imp.mode], st.ret)
       /\ UNCHANGED <<nextCollectionId, now, folder, storage, cmd>>

(***************************************************************************)
(* The commands: a manager call and the saves it is followed by            *)
(***************************************************************************)
\* storageService.saveBookmarks(getAllBookmarks()) and
\* storageService.saveCollections(getAllCollections()): the argument is a
\* copy of the list made at the call
SaveBookmarks(bs) == [kind |-> "bookmarks", list |-> bs]
SaveCollections(cs) == [kind |-> "collections", list |-> cs]

\* a command's synchronous part: the managers after it and the saves it has
\* issued when it reaches its await
CommandStep(st, saves, l) ==
  /\ InBounds(st)
  /\ Len(storage.inflight) + Len(saves) <= MaxSaves
  /\ bookmarks' = st.b
  /\ collections' = st.c
  /\ nextId' = st.id
  /\ storage' = [storage EXCEPT !.inflight = @ \o saves]
  /\ last' = l
  /\ UNCHANGED <<now, folder, imp>>

\* the same for a command that has no dialog
CommandCommit(st, saves, l) == CommandStep(st, saves, l) /\ UNCHANGED cmd

\* one of the saves in flight completes: its list becomes the persisted one
SaveCompleteOp ==
  \E k \in 1..Len(storage.inflight) :
    LET save == storage.inflight[k]
    IN /\ storage' = [storage EXCEPT
                        ![save.kind] = save.list,
                        !.inflight = RemoveAt(@, k)]
       /\ last' = Last("saveComplete", [kind |-> save.kind], 1)
       /\ UNCHANGED <<bookmarks, collections, nextId, nextCollectionId, now,
                      folder, imp, cmd>>

\* Each command below is the part of execute from the manager call on; its
\* result is the manager state, the saves issued and 1 for success
Done(st, ok, saves) ==
  [st |-> st, saves |-> IF ok THEN saves ELSE <<>>, ret |-> IF ok THEN 1 ELSE 0]

ToggleBookmarkCommand(st, uri, line) ==
  LET r == IF hasBookmark(st.b, uri, line)
           THEN removeBookmark(st, uri, line)
           ELSE addBookmark(st, uri, line, NoCid, "")
  IN Done(r, r.ret # 0, <<SaveBookmarks(r.b)>>)

\* a variant that hands the list to the save before it changes the list
DeleteBookmarkCommandSaveFirst(st, uri, line) ==
  LET r == removeBookmark(st, uri, line)
  IN Done(r, r.ret # 0, <<SaveBookmarks(st.b)>>)

DeleteBookmarkCommand(st, uri, line) ==
  LET r == removeBookmark(st, uri, line)
  IN Done(r, r.ret # 0, <<SaveBookmarks(r.b)>>)

MoveBookmarkUpCommand(st, uri, line) ==
  LET r == moveBookmarkUp(st, uri, line)
  IN Done(r, r.ret # 0, <<SaveBookmarks(r.b)>>)

MoveBookmarkDownCommand(st, uri, line) ==
  LET r == moveBookmarkDown(st, uri, line)
  IN Done(r, r.ret # 0, <<SaveBookmarks(r.b)>>)

\* from the answer to the input box on
EditBookmarkDescriptionCommand(st, uri, line, newDescription) ==
  LET r == updateBookmarkDescription(st, uri, line, newDescription)
  IN Done(r, r.ret # 0, <<SaveBookmarks(r.b)>>)

MoveCollectionUpCommand(st, collectionId) ==
  LET r == moveCollectionUp(st.c, collectionId)
  IN Done([st EXCEPT !.c = r.c], r.ret, <<SaveCollections(r.c)>>)

MoveCollectionDownCommand(st, collectionId) ==
  LET r == moveCollectionDown(st.c, collectionId)
  IN Done([st EXCEPT !.c = r.c], r.ret, <<SaveCollections(r.c)>>)

\* from the accepted name on; the scope is the first workspace folder
CreateCollectionCommand(st, collectionName, id) ==
  LET r == createCollection(st.c, collectionName, st.f, id, st.t)
  IN Done([st EXCEPT !.c = r.c], r.ret # 0, <<SaveCollections(r.c)>>)

\* DeleteCollectionCommand.deleteCollection, the private method
DeleteCollection(st, collectionId) ==
  LET r == deleteCollection(st.c, collectionId)
  IN Done([st EXCEPT !.c = r.c], r.ret,
          <<SaveBookmarks(st.b), SaveCollections(r.c)>>)

\* bookmarksInCollection.forEach(bookmark => removeBookmark(uri, line))
RECURSIVE RemoveEach(_, _)
RemoveEach(st, keys) ==
  IF keys = <<>> THEN st
  ELSE RemoveEach(removeBookmark(st, Head(keys).uri, Head(keys).line),
                  Tail(keys))

\* the (uri, line) of the bookmarks that getBookmarksByCollection returns
KeysInCollection(bs, collectionId) ==
  LET found == getBookmarksByCollection(bs, collectionId)
  IN [k \in 1..Len(found) |-> Key(bs[found[k]].uri, bs[found[k]].line)]

\* a variant of the confirmed branch that leaves the bookmarks in place
DeleteCollectionConfirmedKeepingBookmarks(st, collectionId, keys) ==
  DeleteCollection(st, collectionId)

\* the branch taken when the dialog has answered 'Delete'
DeleteCollectionConfirmed(st, collectionId, keys) ==
  DeleteCollection(RemoveEach(st, keys), collectionId)

ToggleBookmarkCommandOp(keys) ==
  \E k \in keys :
    LET r == ToggleBookmarkCommand(St, k.uri, k.line)
    IN /\ UNCHANGED nextCollectionId
       /\ CommandCommit(r.st, r.saves, Last("ToggleBookmarkCommand", k, r.ret))

DeleteBookmarkCommandOp(keys) ==
  \E k \in keys :
    LET r == DeleteBookmarkCommand(St, k.uri, k.line)
    IN /\ UNCHANGED nextCollectionId
       /\ CommandCommit(r.st, r.saves, Last("DeleteBookmarkCommand", k, r.ret))

MoveBookmarkUpCommandOp(keys) ==
  \E k \in keys :
    LET r == MoveBookmarkUpCommand(St, k.uri, k.line)
    IN /\ UNCHANGED nextCollectionId
       /\ CommandCommit(r.st, r.saves, Last("MoveBookmarkUpCommand", k, r.ret))

MoveBookmarkDownCommandOp(keys) ==
  \E k \in keys :
    LET r == MoveBookmarkDownCommand(St, k.uri, k.line)
    IN /\ UNCHANGED nextCollectionId
       /\ CommandCommit(r.st, r.saves, Last("MoveBookmarkDownCommand", k, r.ret))

EditBookmarkDescriptionCommandOp(keys, descriptions) ==
  \E k \in keys, d \in descriptions :
    LET r == EditBookmarkDescriptionCommand(St, k.uri, k.line, d)
    IN /\ UNCHANGED nextCollectionId
       /\ CommandCommit(r.st, r.saves,
                        Last("EditBookmarkDescriptionCommand", k, r.ret))

MoveCollectionUpCommandOp(ids) ==
  \E id \in ids :
    LET r == MoveCollectionUpCommand(St, id)
    IN /\ UNCHANGED nextCollectionId
       /\ CommandCommit(r.st, r.saves,
                        Last("MoveCollectionUpCommand", [id |-> id], r.ret))

MoveCollectionDownCommandOp(ids) ==
  \E id \in ids :
    LET r == MoveCollectionDownCommand(St, id)
    IN /\ UNCHANGED nextCollectionId
       /\ CommandCommit(r.st, r.saves,
                        Last("MoveCollectionDownCommand", [id |-> id], r.ret))

CreateCollectionCommandOp(names) ==
  \E name \in names :
    LET r == CreateCollectionCommand(St, name, nextCollectionId)
    IN /\ nextCollectionId <= MaxCollectionIds
       /\ nextCollectionId' = nextCollectionId + r.ret
       /\ CommandCommit(r.st, r.saves,
                        Last("CreateCollectionCommand", [name |-> name], r.ret))

\* the ids of the collections the picker offers: those of the workspace
\* without the collection the bookmark is in
AvailableCollections(cs, f, existingBookmark) ==
  LET allCollections == getCollectionsForWorkspace(cs, f)
  IN {cs[allCollections[k]].id : k \in 1..Len(allCollections)}
       \ {existingBookmark.collectionId}

\* AddBookmarkToCollectionCommand.execute after the picker has answered
AddBookmarkToCollectionPicked(st, uri, line, selectedId, description) ==
  LET added == addBookmark(removeBookmark(st, uri, line), uri, line,
                           selectedId, description)
  IN Done(added, added.ret # 0, <<SaveBookmarks(added.b)>>)

\* AddBookmarkToCollectionCommand.execute up to its await of the picker: no
\* bookmark at the location, or no collection to offer, ends it
AddBookmarkToCollectionCommandOp(keys) ==
  \E k \in keys :
    LET index == getBookmark(bookmarks, k.uri, k.line)
        options == AvailableCollections(collections, folder, bookmarks[index])
        waits == index # 0 /\ options # {}
    IN /\ cmd = Idle
       /\ UNCHANGED nextCollectionId
       /\ CommandStep(St, <<>>,
                      Last(IF waits THEN "AddBookmarkToCollectionCommand.ask"
                           ELSE "AddBookmarkToCollectionCommand", k, 0))
       /\ cmd' = IF waits
                 THEN [pc |-> "pick", uri |-> k.uri, line |-> k.line,
                       description |-> bookmarks[index].description,
                       options |-> options]
                 ELSE Idle

\* the picker is answered: one of the collections offered, or nothing
AddBookmarkToCollectionAnswerOp ==
  /\ cmd.pc = "pick"
  /\ \E selected \in cmd.options \cup {NoCid} :
       LET r == IF selected = NoCid THEN Done(St, FALSE, <<>>)
                ELSE AddBookmarkToCollectionPicked(St, cmd.uri, cmd.line,
                                                   selected, cmd.description)
       IN /\ UNCHANGED nextCollectionId
          /\ CommandStep(r.st, r.saves,
                         Last("AddBookmarkToCollectionCommand",
                              [uri |-> cmd.uri, line |-> cmd.line,
                               selected |-> selected], r.ret))
          /\ cmd' = Idle

\* DeleteCollectionCommand.execute up to its first await: an unknown id ends
\* it, an empty collection is deleted at once, otherwise the dialog opens
DeleteCollectionCommandOp(ids) ==
  \E id \in ids :
    LET keys == KeysInCollection(bookmarks, id)
        r == DeleteCollection(St, id)
    IN /\ cmd = Idle
       /\ UNCHANGED nextCollectionId
       /\ IF getCollection(collections, id) = 0
          THEN /\ CommandStep(St, <<>>,
                              Last("DeleteCollectionCommand", [id |-> id], 0))
               /\ cmd' = Idle
          ELSE IF keys = <<>>
          THEN /\ CommandStep(r.st, r.saves,
                              Last("DeleteCollectionCommand", [id |-> id], r.ret))
               /\ cmd' = Idle
          ELSE /\ CommandStep(St, <<>>,
                              Last("DeleteCollectionCommand.ask", [id |-> id], 0))
               /\ cmd' = [pc |-> "confirm", collectionId |-> id,
                          bookmarksInCollection |-> keys]

\* the dialog is answered: 'Delete', or anything else (cancelled)
DeleteCollectionAnswerOp ==
  \E result \in {"Delete", "undefined"} :
    LET r == IF result = "Delete"
             THEN DeleteCollectionConfirmed(St, cmd.collectionId,
                                            cmd.bookmarksInCollection)
             ELSE Done(St, FALSE, <<>>)
    IN /\ cmd.pc = "confirm"
       /\ UNCHANGED nextCollectionId
       /\ CommandStep(r.st, r.saves,
                      Last("DeleteCollectionCommand",
                           [id |-> cmd.collectionId, result |-> result], r.ret))
       /\ cmd' = Idle

\* ExportBookmarksCommand, then ImportBookmarksCommand (merge) on the exported
\* file in a window of the same workspace whose managers are empty; the ids
\* the import generates are new ones
ExportThenImportOp ==
  LET st == ExportThenImport(St)
  IN /\ imp.pc = "idle"
     /\ nextId <= MaxIds
     /\ bookmarks' = st.b
     /\ collections' = st.c
     /\ nextId' = st.id
     /\ last' = Last("exportThenImport", NoArgs, 1)
     /\ UNCHANGED <<nextCollectionId, now, folder, imp, storage, cmd>>

ImportCollectionEntries ==
  {[id |-> ForeignId, name |-> "n1", order |-> NoOrder, createdAt |-> 0],
   [id |-> UngroupedId, name |-> UngroupedLabel, order |-> 0, createdAt |-> 0]}
ImportBookmarkEntries ==
  {[uri |-> <<"f">>, line |-> 1, description |-> "", collectionId |-> ForeignId,
    order |-> 0, createdAt |-> 0],
   [uri |-> <<"f">>, line |-> 2, description |-> "d", collectionId |-> NoCid,
    order |-> NoOrder, createdAt |-> 0],
   [uri |-> FileIn, line |-> 3, description |-> "", collectionId |-> ForeignId,
    order |-> 7, createdAt |-> 0]}
ImportEntry(k) == CHOOSE e \in ImportBookmarkEntries : e.line = k
ImportFiles ==
  {[collections |-> <<CHOOSE e \in ImportCollectionEntries : e.id = ForeignId>>,
    bookmarks |-> <<ImportEntry(1), ImportEntry(2)>>],
   [collections |-> <<>>, bookmarks |-> <<ImportEntry(3), ImportEntry(1)>>],
   [collections |-> <<CHOOSE e \in ImportCollectionEntries : e.id = UngroupedId>>,
    bookmarks |-> <<>>]}
CollectionOnlyFiles ==
  {[collections |-> <<e>>, bookmarks |-> <<>>] : e \in ImportCollectionEntries}
ImportModes == {"replace", "merge"}

\* the typeof view of a file whose content is as the ImportData interface says
WellTyped(file) ==
  [type |-> "object", version |-> "string", exportDate |-> "string",
   bookmarks |-> "array", collections |-> "array",
   bookmarkEntries |-> [k \in 1..Len(file.bookmarks) |->
      [type |-> "object", uri |-> "string", line |-> "number",
       createdAt |-> "string"]],
   collectionEntries |-> [k \in 1..Len(file.collections) |->
      [type |-> "object", id |-> "string", name |-> "string",
       createdAt |-> "string"]]]
OneOfEach ==
  [collections |-> <<CHOOSE e \in ImportCollectionEntries : e.id = ForeignId>>,
   bookmarks |-> <<ImportEntry(1)>>]
\* files the user may pick: well-formed ones, and files that JSON.parse
\* accepts with a key of the wrong type or a key missing
MalformedViews ==
  LET t == WellTyped(OneOfEach)
  IN {[t EXCEPT !.version = "number"],
      [t EXCEPT !.exportDate = "undefined"],
      [t EXCEPT !.bookmarks = "object", !.bookmarkEntries = <<>>],
      [t EXCEPT !.collections = "undefined", !.collectionEntries = <<>>],
      [t EXCEPT !.bookmarkEntries[1].uri = "undefined"],
      [t EXCEPT !.bookmarkEntries[1].line = "undefined"],
      [t EXCEPT !.bookmarkEntries[1].line = "string"],
      [t EXCEPT !.bookmarkEntries[1].createdAt = "undefined"],
      [t EXCEPT !.collectionEntries[1].id = "undefined"],
      [t EXCEPT !.collectionEntries[1].name = "undefined"],
      [t EXCEPT !.collectionEntries[1].createdAt = "undefined"]}
PickedFiles ==
  {[view |-> WellTyped(OneOfEach), data |-> OneOfEach]}
  \cup {[view |-> v, data |-> OneOfEach] : v \in MalformedViews}

\* from the file dialog to the first wait of the import loop, for one file and
\* one answer to the mode question: a file that fails validateImportData ends
\* the command with an error message, before the question is asked
ImportOpen(picked, mode) ==
  IF validateImportData(picked.view)
  THEN ImportBeginOp({picked.data}, {mode})
  ELSE /\ imp.pc = "idle"
       /\ last' = Last("importRejected", [view |-> picked.view], 0)
       /\ UNCHANGED <<bookmarks, collections, nextId, nextCollectionId, now,
                      folder, imp, storage, cmd>>

ImportOpenOp(files, modes) ==
  \E picked \in files, mode \in modes : ImportOpen(picked, mode)
TopInsert == {<<[startLine |-> 0, endLine |-> 0, text |-> <<"x", NewLineToken>>]>>}

\* BookmarkManager alone
NextBookmarks ==
  \/ AddBookmarkOp(FewKeys, {NoCid, 1}, {""})
  \/ RemoveBookmarkOp(FewKeys)
  \/ ToggleBookmarkOp({Key(FileIn, 2)}, {NoCid})
  \/ UpdateBookmarkDescriptionOp({Key(FileIn, 1), Key(FileIn, 3)}, {"d"})
  \/ MoveBookmarkUpOp(FewKeys)
  \/ MoveBookmarkDownOp(FewKeys)
  \/ UpdateBookmarksForDocumentChangesOp({FileIn}, FewBatches)

\* the operations that decide the order of bookmarks: adds, removes and moves
NextBookmarkOrder ==
  \/ AddBookmarkOp(FewKeys, {NoCid, 1}, {""})
  \/ RemoveBookmarkOp(FewKeys)
  \/ MoveBookmarkUpOp(FewKeys)
  \/ MoveBookmarkDownOp(FewKeys)

\* CollectionManager, with the two callers that create collections
NextCollections ==
  \/ CreateCollectionOp(Names, {Undefined, FolderW})
  \/ AddCollectionOp(Names, {<<"w">>, FolderW})
  \/ DeleteCollectionOp
  \/ EnsureUngroupedCollectionOp({Undefined, FolderW})
  \/ AddBookmarkOp({Key(FileIn, 1)}, {NoCid}, {""})
  \/ ImportBeginOp(CollectionOnlyFiles, ImportModes)

\* the ordering operations of CollectionManager
NextCollectionMoves ==
  \/ CreateCollectionOp(Names, {Undefined, <<"w">>})
  \/ AddCollectionOp({"n1"}, {<<"w">>})
  \/ DeleteCollectionOp
  \/ EnsureUngroupedCollectionOp({Undefined, <<"w">>})
  \/ MoveCollectionUpOp
  \/ MoveCollectionDownOp

\* the import command from the file dialog on, on managers that hold something
NextImportValidation ==
  \/ AddBookmarkOp({Key(FileIn, 1), Key(FileIn, 2)}, {NoCid, ForeignId}, {""})
  \/ CreateCollectionOp({"n1"}, {FolderW})
  \/ ImportOpenOp(PickedFiles, ImportModes)
  \/ ImportBookmarkOp

\* files in which every bookmark names a collection of the file or none
ConsistentFiles ==
  {[collections |-> <<CHOOSE e \in ImportCollectionEntries : e.id = ForeignId>>,
    bookmarks |-> bs] : bs \in {<<>>, <<ImportEntry(1), ImportEntry(2)>>}}

\* replace imports that run from start to end between the other operations,
\* on managers in which every bookmark names a held collection
NextImportReplace ==
  \/ imp.pc = "idle"
       /\ AddBookmarkOp({Key(FileIn, 1), Key(FileOut, 1)}, {NoCid}, {""})
  \/ imp.pc = "idle" /\ CreateCollectionOp({"n1"}, {FolderW, Undefined})
  \/ ImportBeginOp(ConsistentFiles, {"replace"})
  \/ ImportBookmarkOp

\* paths of files: segments of the characters w, 2 and f under the root
PathTokens == {"/", "w", "2", "f"}
FilePaths ==
  {p \in UNION {[1..n -> PathTokens] : n \in 2..MaxPath} :
     /\ p[1] = "/"
     /\ p[Len(p)] # "/"
     /\ \A i \in 1..(Len(p) - 1) : ~(p[i] = "/" /\ p[i + 1] = "/")}
FileUris == {<<Scheme>> \o p : p \in FilePaths}

\* the export of one bookmark's uri; the folder itself is not a file
MakeUriRelativeOp(uris) ==
  \E uri \in uris \ {folder} :
    /\ last.op = "init"
    /\ last' = Last("makeUriRelative",
                    [uri |-> uri, exported |-> makeUriRelative(folder, uri)], 1)
    /\ UNCHANGED <<bookmarks, collections, nextId, nextCollectionId, now,
                   folder, imp, storage, cmd>>

\* the import of the uri that was exported, in the same window
MakeUriAbsoluteOp ==
  /\ last.op = "makeUriRelative"
  /\ last' = Last("makeUriAbsolute",
                  [uri |-> last.a.uri, exported |-> last.a.exported,
                   imported |-> makeUriAbsolute(folder, last.a.exported)], 1)
  /\ UNCHANGED <<bookmarks, collections, nextId, nextCollectionId, now,
                 folder, imp, storage, cmd>>

NextUriRoundTrip ==
  \/ MakeUriRelativeOp(FileUris)
  \/ MakeUriAbsoluteOp

\* states built by adds, creates and moves, exported and imported
NextRoundTrip ==
  \/ AddBookmarkOp(FewKeys, {NoCid, 1}, {""})
  \/ CreateCollectionOp({"n1"}, {FolderW})
  \/ MoveBookmarkUpOp(FewKeys)
  \/ ExportThenImportOp

\* no command is waiting for a dialog and no save is in flight
Quiet == cmd = Idle /\ storage.inflight = <<>>

\* every command that changes a manager and saves; the saves complete before
\* the next command starts
NextCommands ==
  \/ Quiet /\ ToggleBookmarkCommandOp({Key(FileIn, 1), Key(FileIn, 2)})
  \/ Quiet /\ DeleteBookmarkCommandOp({Key(FileIn, 1), Key(FileIn, 2)})
  \/ Quiet /\ MoveBookmarkUpCommandOp({Key(FileIn, 2)})
  \/ Quiet /\ MoveBookmarkDownCommandOp({Key(FileIn, 1)})
  \/ Quiet /\ EditBookmarkDescriptionCommandOp({Key(FileIn, 1)}, {"d"})
  \/ Quiet /\ MoveCollectionUpCommandOp({UngroupedId, 1})
  \/ Quiet /\ MoveCollectionDownCommandOp({UngroupedId, 1})
  \/ Quiet /\ CreateCollectionCommandOp({"n1"})
  \/ Quiet /\ DeleteCollectionCommandOp({UngroupedId, 1})
  \/ DeleteCollectionAnswerOp
  \/ SaveCompleteOp

\* two commands that save the bookmark list, and the completion of saves
NextSaves ==
  \/ ToggleBookmarkCommandOp({Key(FileIn, 1), Key(FileIn, 2)})
  \/ DeleteBookmarkCommandOp({Key(FileIn, 1), Key(FileIn, 2)})
  \/ SaveCompleteOp

\* both managers and the import command
NextImport ==
  \/ AddBookmarkOp({Key(FileIn, 1), Key(FileIn, 2)}, {NoCid, ForeignId}, {""})
  \/ ToggleBookmarkOp({Key(FileIn, 3)}, {NoCid})
  \/ UpdateBookmarksForDocumentChangesOp({FileIn}, TopInsert)
  \/ DeleteCollectionOp
  \/ ImportBeginOp(ImportFiles, ImportModes)
  \/ ImportBookmarkOp

\* the reconciliation applied once to a bookmark list built by addBookmark;
\* every bookmark of the edited file carries a description of its own, by
\* which it can be recognised after it has been removed and added again
DescriptionOf(l) == "d" \o ToString(l)
ReconcileAdds ==
  {[uri |-> FileIn, line |-> l, collectionId |-> 1,
    description |-> DescriptionOf(l)] : l \in Lines}
  \cup {[uri |-> FileOut, line |-> 1, collectionId |-> NoCid, description |-> ""]}

RECURSIVE AddAll(_, _)
AddAll(st, adds) ==
  IF adds = <<>> THEN st
  ELSE AddAll(addBookmark(st, Head(adds).uri, Head(adds).line,
                          Head(adds).collectionId, Head(adds).description),
              Tail(adds))

\* updateBookmarksForDocumentChanges with a callback set by
\* setOnBookmarksChanged: the lists the callback read are recorded
ReconcileObservedOp(uris, batches) ==
  \E uri \in uris, batch \in batches :
    LET st == updateBookmarksForDocumentChanges(St, uri, batch)
    IN Commit([st EXCEPT !.ret = 0],
              Last("updateBookmarksForDocumentChanges",
                   [uri |-> uri, contentChanges |-> batch,
                    observed |-> NotifiedDuringReconcile(St, uri, batch)],
                   st.ret[1] + st.ret[2]))

\* the (uri, line) keys that hold a bookmark
BookmarkedKeys(bs) == {Key(bs[i].uri, bs[i].line) : i \in 1..Len(bs)}

\* toggleBookmark, with the keys bookmarked before the call and whether the
\* call before this one toggled the same key
ToggleBookmarkAgainOp(keys, cids) ==
  \E k \in keys, cid \in cids :
    LET st == toggleBookmark(St, k.uri, k.line, cid)
    IN Commit(st, Last("toggleBookmark",
                       [uri |-> k.uri, line |-> k.line, collectionId |-> cid,
                        before |-> BookmarkedKeys(bookmarks),
                        again |-> /\ last.op = "toggleBookmark"
                                  /\ last.a.uri = k.uri
                                  /\ last.a.line = k.line],
                       st.ret))

\* a call of one of the five methods with a callback set by
\* setOnBookmarksChanged: the lists the callback read are recorded
ObservedCallOp(keys) ==
  \E k \in keys,
     op \in {"addBookmark", "removeBookmark", "updateBookmarkDescription",
             "moveBookmarkUp", "moveBookmarkDown"} :
    LET st == CASE op = "addBookmark" ->
                     addBookmark(St, k.uri, k.line, NoCid, "")
                [] op = "removeBookmark" -> removeBookmark(St, k.uri, k.line)
                [] op = "updateBookmarkDescription" ->
                     updateBookmarkDescription(St, k.uri, k.line, "d")
                [] op = "moveBookmarkUp" -> moveBookmarkUp(St, k.uri, k.line)
                [] op = "moveBookmarkDown" -> moveBookmarkDown(St, k.uri, k.line)
        observed ==
             CASE op = "addBookmark" ->
                     NotifiedByAdd(St, k.uri, k.line, NoCid, "")
                [] op = "removeBookmark" -> NotifiedByRemove(St, k.uri, k.line)
                [] op = "updateBookmarkDescription" ->
                     NotifiedByUpdate(St, k.uri, k.line, "d")
                [] op = "moveBookmarkUp" -> NotifiedByMove(St, k.uri, k.line, -1)
                [] op = "moveBookmarkDown" -> NotifiedByMove(St, k.uri, k.line, 1)
    IN Commit(st, Last(op, [uri |-> k.uri, line |-> k.line,
                            observed |-> observed], st.ret))

\* GoToNextBookmarkCommand.execute: the first time without an active editor,
\* then with the cursor on the bookmark the last execution navigated to; the
\* bookmarks visited since the last repetition are recorded
GoToNextBookmarkCommandOp ==
  LET repeated == last.op = "GoToNextBookmarkCommand"
      editor == IF repeated THEN [uri |-> last.a.uri, line |-> last.a.line]
                ELSE NoEditor
      index == nextBookmark(bookmarks, editor)
      reached == Key(bookmarks[index].uri, bookmarks[index].line)
      visited == IF repeated /\ reached \notin last.a.visited
                 THEN last.a.visited \cup {reached} ELSE {reached}
  IN /\ index # 0
     /\ Commit(St, Last("GoToNextBookmarkCommand",
                        [uri |-> reached.uri, line |-> reached.line,
                         visited |-> visited], index))

InitReconcile ==
  \E adds \in UNION {[1..k -> ReconcileAdds] : k \in 0..3} :
    LET st == AddAll([b |-> <<>>, c |-> <<>>, id |-> 1, t |-> 0, f |-> FolderW,
                      ret |-> 0], adds)
    IN /\ bookmarks = st.b
       /\ collections = st.c
       /\ nextId = st.id
       /\ nextCollectionId = 1
       /\ now = 0
       /\ folder = FolderW
       /\ imp = Idle
       /\ storage = EmptyStorage
       /\ cmd = Idle
       /\ last = Last("init", NoArgs, 0)

NextReconcile ==
  /\ last.op = "init"
  /\ UpdateBookmarksForDocumentChangesOp({FileIn}, Batches)

\* a workspace as a fully-qualified location and as its raw scope key
ScopeForms == {FolderW, getRelativeWorkspaceId(FolderW)}

\* CollectionManager called with both forms of the workspace
NextScopes ==
  \/ CreateCollectionOp(Names, ScopeForms)
  \/ EnsureUngroupedCollectionOp(ScopeForms)
  \/ DeleteCollectionOp

\* toggles of two lines of a file that other bookmarks fill up
NextToggle ==
  \/ AddBookmarkOp({Key(FileIn, 3), Key(FileIn, 4), Key(FileOut, 1)}, {NoCid}, {""})
  \/ RemoveBookmarkOp({Key(FileIn, 3)})
  \/ ToggleBookmarkAgainOp({Key(FileIn, 1), Key(FileIn, 2)}, {NoCid, 1})

\* validateInput of the description input box: value.length > 500 is refused
MaxDescriptionLength == 500
Doubled(s) == s \o s
\* a description of 512 characters
TooLongDescription ==
  Doubled(Doubled(Doubled(Doubled(Doubled(Doubled(Doubled(Doubled(Doubled("x")))))))))
\* an export file whose bookmark carries that description
LongDescriptionFiles ==
  {[collections |-> <<>>,
    bookmarks |-> <<[uri |-> <<"f">>, line |-> 2,
                     description |-> TooLongDescription,
                     collectionId |-> NoCid, order |-> NoOrder,
                     createdAt |-> 0]>>]}

\* the operations that set or carry a description
NextDescriptions ==
  \/ AddBookmarkOp({Key(FileIn, 1), Key(FileIn, 2)}, {NoCid},
                   {"", TooLongDescription})
  \/ UpdateBookmarkDescriptionOp({Key(FileIn, 1)}, {"d", TooLongDescription})
  \/ RemoveBookmarkOp({Key(FileIn, 1), Key(FileIn, 2), Key(FileIn, 3)})
  \/ UpdateBookmarksForDocumentChangesOp({FileIn}, TopInsert)
  \/ ImportBeginOp(LongDescriptionFiles, {"merge"})
  \/ ImportBookmarkOp

\* AddBookmarkToCollectionCommand, with the commands and the reconciliation
\* that can run while its picker is open
NextPicker ==
  \/ ToggleBookmarkCommandOp({Key(FileIn, 1)})
  \/ DeleteBookmarkCommandOp({Key(FileIn, 1)})
  \/ CreateCollectionCommandOp({"n1"})
  \/ UpdateBookmarksForDocumentChangesOp({FileIn}, TopInsert)
  \/ AddBookmarkToCollectionCommandOp({Key(FileIn, 1)})
  \/ AddBookmarkToCollectionAnswerOp
  \/ SaveCompleteOp

\* DeleteCollectionCommand, with the additions and the reconciliation that can
\* run while its confirmation dialog is open
NextConfirm ==
  \/ CreateCollectionCommandOp({"n1"})
  \/ AddBookmarkOp({Key(FileIn, 1), Key(FileIn, 2)}, {NoCid, 1}, {""})
  \/ UpdateBookmarksForDocumentChangesOp({FileIn}, TopInsert)
  \/ DeleteCollectionCommandOp({UngroupedId, 1})
  \/ DeleteCollectionAnswerOp
  \/ SaveCompleteOp

\* workspace folders with different paths: file:///w, file:///z/w, file:///z
WorkspaceLocations ==
  {FolderW, <<Scheme, "/", "z", "/", "w">>, <<Scheme, "/", "z">>}

\* CollectionManager called for several workspace folders
NextLocations ==
  \/ CreateCollectionOp({"n1"}, WorkspaceLocations)
  \/ EnsureUngroupedCollectionOp(WorkspaceLocations)
  \/ DeleteCollectionOp

\* BookmarkManager with a callback set
NextCallbacks ==
  ObservedCallOp({Key(FileIn, 1), Key(FileIn, 2), Key(FileIn, 3)})

\* bookmarks in the files file:///w/a and file:///w/B, then navigation
NextNavigation ==
  \/ /\ last.op \in {"init", "addBookmark"}
     /\ AddBookmarkOp({Key(<<Scheme, "/", "w", "/", "a">>, 1),
                       Key(<<Scheme, "/", "w", "/", "a">>, 2),
                       Key(<<Scheme, "/", "w", "/", "B">>, 1),
                       Key(<<Scheme, "/", "w", "/", "B">>, 2)}, {NoCid}, {""})
  \/ GoToNextBookmarkCommandOp

NextObserver ==
  /\ last.op = "init"
  /\ ReconcileObservedOp({FileIn}, Batches)

SpecBookmarks == InitIn({FolderW}) /\ [][NextBookmarks]_vars
SpecBookmarkOrder == InitIn({FolderW}) /\ [][NextBookmarkOrder]_vars
SpecCollections == InitIn({FolderW}) /\ [][NextCollections]_vars
SpecCollectionMoves == InitIn({FolderW}) /\ [][NextCollectionMoves]_vars
SpecImport == InitIn({FolderW}) /\ [][NextImport]_vars
SpecImportValidation == InitIn({FolderW}) /\ [][NextImportValidation]_vars
SpecImportReplace == InitIn({FolderW}) /\ [][NextImportReplace]_vars
SpecRoundTrip == InitIn({FolderW}) /\ [][NextRoundTrip]_vars
SpecUriRoundTrip == InitIn(Folders) /\ [][NextUriRoundTrip]_vars
SpecCommands == InitIn({FolderW}) /\ [][NextCommands]_vars
SpecSaves == InitIn({FolderW}) /\ [][NextSaves]_vars
SpecReconcile == InitReconcile /\ [][NextReconcile]_vars
SpecScopes == InitIn({FolderW}) /\ [][NextScopes]_vars
SpecToggle == InitIn({FolderW}) /\ [][NextToggle]_vars
SpecDescriptions == InitIn({FolderW}) /\ [][NextDescriptions]_vars
SpecPicker == InitIn({FolderW}) /\ [][NextPicker]_vars
SpecConfirm == InitIn({FolderW}) /\ [][NextConfirm]_vars
SpecLocations == InitIn({FolderW}) /\ [][NextLocations]_vars
SpecCallbacks == InitIn({FolderW}) /\ [][NextCallbacks]_vars
SpecNavigation == InitIn({FolderW}) /\ [][NextNavigation]_vars
SpecObserver == InitReconcile /\ [][NextObserver]_vars

(***************************************************************************)
(* Properties                                                              *)
(***************************************************************************)
NoDuplicateKeys(bs) ==
  \A i, j \in 1..Len(bs) :
    i # j => ~(bs[i].uri = bs[j].uri /\ bs[i].line = bs[j].line)

BookmarksInFile(bs, uri) == Cardinality({i \in 1..Len(bs) : bs[i].uri = uri})

\* C1: whatever sequence of addBookmark, removeBookmark, toggleBookmark,
\* moveBookmarkUp/Down, updateBookmarkDescription and
\* updateBookmarksForDocumentChanges has run, no two bookmarks share (uri, line);
\* and an addBookmark on a (uri, line) that is already bookmarked returns null
\* and leaves the bookmark list as it was.
C1_OneBookmarkPerLine ==
  [][/\ NoDuplicateKeys(bookmarks')
     /\ (last'.op = "addBookmark"
         /\ hasBookmark(bookmarks, last'.a.uri, last'.a.line))
        => (last'.ret = 0 /\ bookmarks' = bookmarks)]_vars

\* an addBookmark was refused for a line that is bookmarked, in a file that
\* still has room
C1_Witness ==
  /\ last.op = "addBookmark"
  /\ last.ret = 0
  /\ hasBookmark(bookmarks, last.a.uri, last.a.line)
  /\ BookmarksInFile(bookmarks, last.a.uri) < maxBookmarksPerFile

LinesOf(bs, uri) == {bs[i].line : i \in {j \in 1..Len(bs) : bs[j].uri = uri}}
LineBreaks(text) == Cardinality({i \in 1..Len(text) : text[i] = NewLineToken})
Shift(change) == LineBreaks(change.text) - (change.endLine - change.startLine)
IsReconcile(l) == l.op = "updateBookmarksForDocumentChanges"

\* C2: after updateBookmarksForDocumentChanges with a batch of one change, the
\* bookmarked lines of the file are exactly: every line below startLine as it
\* was, no line of [startLine, endLine], and every line L above endLine moved to
\* L + linesAdded - (endLine - startLine); so every bookmark outside the
\* replaced range is still there.
C2_SingleChange ==
  [][(IsReconcile(last') /\ Len(last'.a.contentChanges) = 1)
     => LET change == last'.a.contentChanges[1]
            before == LinesOf(bookmarks, last'.a.uri)
        IN /\ LinesOf(bookmarks', last'.a.uri) =
                {l \in before : l < change.startLine}
                \cup {l + Shift(change) : l \in {k \in before : k > change.endLine}}
           /\ Len(bookmarks') =
                Len(bookmarks) - Cardinality({l \in before :
                  l >= change.startLine /\ l <= change.endLine})]_vars

Disjoint(c1, c2) == c1.endLine < c2.startLine \/ c2.endLine < c1.startLine

\* C3: when the batch holds two changes that do not overlap and both lie
\* before a bookmark, the bookmark ends at its line plus the sum of the two
\* shifts.
C3_NetShift ==
  [][(IsReconcile(last') /\ Len(last'.a.contentChanges) = 2)
     => LET c1 == last'.a.contentChanges[1]
            c2 == last'.a.contentChanges[2]
        IN Disjoint(c1, c2) =>
             \A l \in LinesOf(bookmarks, last'.a.uri) :
               (l > c1.endLine /\ l > c2.endLine)
                 => (l + Shift(c1) + Shift(c2)) \in LinesOf(bookmarks', last'.a.uri)]_vars

FilesOf(bs) == {bs[i].uri : i \in 1..Len(bs)}

\* C4: whatever sequence of addBookmark, toggleBookmark,
\* updateBookmarksForDocumentChanges and import steps has run, no file holds
\* more than maxBookmarksPerFile bookmarks; and an addBookmark on a file that
\* already holds maxBookmarksPerFile bookmarks returns null and leaves the
\* bookmark list (so the file's count) as it was.
C4_Capacity ==
  [][/\ \A uri \in FilesOf(bookmarks') :
          BookmarksInFile(bookmarks', uri) <= maxBookmarksPerFile
     /\ (last'.op = "addBookmark"
         /\ BookmarksInFile(bookmarks, last'.a.uri) >= maxBookmarksPerFile)
        => (last'.ret = 0 /\ bookmarks' = bookmarks)]_vars

\* an addBookmark was refused for a free line of a file that is full
C4_Witness ==
  /\ last.op = "addBookmark"
  /\ last.ret = 0
  /\ ~hasBookmark(bookmarks, last.a.uri, last.a.line)
  /\ BookmarksInFile(bookmarks, last.a.uri) = maxBookmarksPerFile

NoDuplicateNames(cs) ==
  \A i, j \in 1..Len(cs) :
    i # j => ~(cs[i].workspaceId = cs[j].workspaceId /\ cs[i].name = cs[j].name)

NameInScope(cs, name, ws) ==
  \E i \in 1..Len(cs) : cs[i].name = name /\ cs[i].workspaceId = ws

\* C5: whatever sequence of createCollection, addCollection,
\* ensureUngroupedCollection, deleteCollection and import has run, no two
\* collections of one workspaceId have the same name; createCollection with a
\* name the scope already has returns null and adds nothing, and with a name
\* that only another scope has it returns the new collection.
C5_UniqueNames ==
  [][/\ NoDuplicateNames(collections')
     /\ last'.op = "createCollection" =>
          LET ws == RelativeWorkspaceId(last'.a.workspaceId)
          IN IF NameInScope(collections, last'.a.name, ws)
             THEN last'.ret = 0 /\ collections' = collections
             ELSE /\ last'.ret # 0
                  /\ collections'[last'.ret].name = last'.a.name
                  /\ collections'[last'.ret].workspaceId = ws]_vars

\* the scope a collection belongs to: its workspaceId, a fully-qualified
\* location and the raw key of the same workspace being one scope
ScopeOf(c) == RelativeWorkspaceId(c.workspaceId)

UngroupedOf(cs, ws) ==
  {i \in 1..Len(cs) : cs[i].id = UngroupedId /\ ScopeOf(cs[i]) = ws}

\* C6: whatever sequence of createCollection, addCollection,
\* ensureUngroupedCollection, deleteCollection and addBookmark has run, a
\* workspace scope holds at most one collection with the reserved id;
\* ensureUngroupedCollection returns a collection with the reserved id in the
\* scope asked for (so two scopes get two objects), and when it is called again
\* for the scope it returns the object it returned before and changes nothing;
\* an addBookmark without a collection id that succeeds gives the bookmark the
\* reserved id and leaves a collection with that id in the list.
C6_UngroupedSingleton ==
  [][/\ \A i \in 1..Len(collections') :
          Cardinality(UngroupedOf(collections', ScopeOf(collections'[i]))) <= 1
     /\ last'.op = "ensureUngroupedCollection" =>
          LET ws == RelativeWorkspaceId(last'.a.workspaceId)
          IN /\ last'.ret \in UngroupedOf(collections', ws)
             /\ (last.op = "ensureUngroupedCollection"
                 /\ RelativeWorkspaceId(last.a.workspaceId) = ws) =>
                  (collections' = collections /\ last'.ret = last.ret)
     /\ (last'.op = "addBookmark" /\ last'.a.collectionId = NoCid
         /\ last'.ret # 0) =>
          /\ bookmarks'[last'.ret].collectionId = UngroupedId
          /\ \E i \in 1..Len(collections') : collections'[i].id = UngroupedId]_vars

\* C7: whatever sequence of addBookmark (with or without a collection id),
\* import and deleteCollection has run, every bookmark's collectionId is the id
\* of a collection in the CollectionManager's list.
C7_CollectionExists ==
  \A i \in 1..Len(bookmarks) : getCollection(collections, bookmarks[i].collectionId) # 0

IsCollectionMove(l) == l.op \in {"moveCollectionUp", "moveCollectionDown"}

InScope(cs, ws) == {i \in 1..Len(cs) : cs[i].workspaceId = ws}

\* C8: after a moveCollectionUp or moveCollectionDown that returned true, the
\* order values of the collections in the moved collection's workspace scope
\* are exactly 0, 1, ..., n-1: no gap and no duplicate.
C8_CollectionOrdersDense ==
  [][(IsCollectionMove(last') /\ last'.ret = 1) =>
       LET moved == getCollection(collections, last'.a.id)
           scope == InScope(collections', collections[moved].workspaceId)
       IN {collections'[i].order : i \in scope} = 0..(Cardinality(scope) - 1)]_vars

\* a move succeeded in a scope of three collections
C8_Witness ==
  /\ IsCollectionMove(last)
  /\ last.ret = 1
  /\ \E ws \in {collections[i].workspaceId : i \in 1..Len(collections)} :
       /\ Cardinality(InScope(collections, ws)) = 3
       /\ \E i \in InScope(collections, ws) : collections[i].id = last.a.id

IsBookmarkMove(l) == l.op \in {"moveBookmarkUp", "moveBookmarkDown"}

InCollection(bs, collectionId) ==
  {i \in 1..Len(bs) : bs[i].collectionId = collectionId}

\* the order values of the moved bookmark's collection after the move
MovedOrders ==
  LET moved == getBookmark(bookmarks', last'.a.uri, last'.a.line)
  IN {bookmarks'[i].order :
        i \in InCollection(bookmarks', bookmarks'[moved].collectionId)}

MovedCount ==
  LET moved == getBookmark(bookmarks', last'.a.uri, last'.a.line)
  IN Cardinality(InCollection(bookmarks', bookmarks'[moved].collectionId))

\* C9 as stated: after a moveBookmarkUp or moveBookmarkDown that returned true,
\* the order values of the bookmarks in that bookmark's collection are exactly
\* their ranks 0, 1, ..., n-1.
C9_BookmarkOrdersAreRanks ==
  [][(IsBookmarkMove(last') /\ last'.ret = 1) =>
       MovedOrders = 0..(MovedCount - 1)]_vars

\* C9, amended: after a moveBookmarkUp or moveBookmarkDown that returned true,
\* the order values of the bookmarks in that bookmark's collection are exactly
\* ten times their ranks: 0, 10, ..., 10 (n-1), no two alike and evenly spaced.
C9_BookmarkOrdersAreTenTimesRanks ==
  [][(IsBookmarkMove(last') /\ last'.ret = 1) =>
       MovedOrders = {OrderStep * k : k \in 0..(MovedCount - 1)}]_vars

\* a move succeeded in a collection of at least two bookmarks, one of which now
\* has order 10
C9_Witness ==
  /\ IsBookmarkMove(last)
  /\ last.ret = 1
  /\ LET moved == getBookmark(bookmarks, last.a.uri, last.a.line)
     IN \E i \in InCollection(bookmarks, bookmarks[moved].collectionId) :
          bookmarks[i].order = OrderStep

\* the collection at position i of the list is the first (up) or the last (down)
\* of getCollectionsForWorkspace of its scope
CollectionAtBoundary(cs, i, op) ==
  LET siblings == WorkspaceCollections(cs, cs[i].workspaceId)
  IN IF op = "moveCollectionUp" THEN siblings[1] = i
     ELSE siblings[Len(siblings)] = i

\* the same for a bookmark and getBookmarksByCollection of its collection
BookmarkAtBoundary(bs, i, op) ==
  LET siblings == getBookmarksByCollection(bs, bs[i].collectionId)
  IN IF op = "moveBookmarkUp" THEN siblings[1] = i
     ELSE siblings[Len(siblings)] = i

\* C10: moveCollectionUp called with the id of a collection that is the first
\* of its scope, moveCollectionDown with the id of one that is the last,
\* moveBookmarkUp with the key of the first bookmark of its collection,
\* moveBookmarkDown with the key of the last one, and any move with an id or
\* key that nothing has, return false and leave the bookmark list and the
\* collection list (so every order value) as they were.
C10_BoundaryMoves ==
  [][/\ IsCollectionMove(last') =>
          LET named == {i \in 1..Len(collections) :
                         collections[i].id = last'.a.id}
          IN (\/ named = {}
              \/ \E i \in named : CollectionAtBoundary(collections, i, last'.op))
             => (last'.ret = 0 /\ collections' = collections
                 /\ bookmarks' = bookmarks)
     /\ IsBookmarkMove(last') =>
          LET named == {i \in 1..Len(bookmarks) :
                         /\ bookmarks[i].uri = last'.a.uri
                         /\ bookmarks[i].line = last'.a.line}
          IN (\/ named = {}
              \/ \E i \in named : BookmarkAtBoundary(bookmarks, i, last'.op))
             => (last'.ret = 0 /\ collections' = collections
                 /\ bookmarks' = bookmarks)]_vars

\* the sequence s with the elements at positions p and q exchanged
Exchanged(s, p, q) ==
  [k \in 1..Len(s) |-> IF k = p THEN s[q] ELSE IF k = q THEN s[p] ELSE s[k]]

PositionIn(s, x) == FindIndex(s, LAMBDA y : y = x)

\* C11: a moveCollectionUp(id) that returns true puts the collection one
\* position earlier in getCollectionsForWorkspace of its scope
\* (moveCollectionDown: one position later): the sorted list after the call is
\* the sorted list before it with the collection and its neighbour exchanged,
\* every other collection of the scope where it was.
C11_CollectionMovesOnePosition ==
  [][(IsCollectionMove(last') /\ last'.ret = 1) =>
       LET moved == getCollection(collections, last'.a.id)
           ws == collections[moved].workspaceId
           before == WorkspaceCollections(collections, ws)
           p == PositionIn(before, moved)
           q == IF last'.op = "moveCollectionUp" THEN p - 1 ELSE p + 1
       IN /\ q \in 1..Len(before)
          /\ WorkspaceCollections(collections', ws) = Exchanged(before, p, q)]_vars

\* C12: a moveBookmarkUp(uri, line) that returns true puts the bookmark one
\* position earlier in getBookmarksByCollection of its collection
\* (moveBookmarkDown: one position later): the sorted list after the call is the
\* sorted list before it with the bookmark and its neighbour exchanged, every
\* other bookmark of the collection where it was.
C12_BookmarkMovesOnePosition ==
  [][(IsBookmarkMove(last') /\ last'.ret = 1) =>
       LET moved == getBookmark(bookmarks, last'.a.uri, last'.a.line)
           collectionId == bookmarks[moved].collectionId
           before == getBookmarksByCollection(bookmarks, collectionId)
           p == PositionIn(before, moved)
           q == IF last'.op = "moveBookmarkUp" THEN p - 1 ELSE p + 1
       IN /\ q \in 1..Len(before)
          /\ getBookmarksByCollection(bookmarks', collectionId)
               = Exchanged(before, p, q)]_vars

\* C13: right after an addBookmark that succeeded, in a state reached by adds,
\* removes and moves, the new bookmark is the last element of
\* getBookmarksByCollection of its collection.
C13_AddedBookmarkIsLast ==
  [][(last'.op = "addBookmark" /\ last'.ret # 0) =>
       LET sorted == getBookmarksByCollection(bookmarks',
                                              bookmarks'[last'.ret].collectionId)
       IN sorted[Len(sorted)] = last'.ret]_vars

FileBookmarks(bs, uri) == {bs[i] : i \in {j \in 1..Len(bs) : bs[j].uri = uri}}
\* the bookmarks of the file before the call that are no longer in it, and
\* those that are still in it on another line
ActuallyDeleted(before, after) ==
  {b \in before : ~ \E a \in after : a.description = b.description}
ActuallyMoved(before, after) ==
  {b \in before : \E a \in after : a.description = b.description
                                    /\ a.line # b.line}

\* C15: the removed and updated numbers that
\* updateBookmarksForDocumentChanges returns are the number of bookmarks the
\* call deleted from the file and the number of bookmarks whose line the call
\* changed.
C15_CountsAreActual ==
  [][IsReconcile(last') =>
       LET before == FileBookmarks(bookmarks, last'.a.uri)
           after == FileBookmarks(bookmarks', last'.a.uri)
       IN /\ last'.a.removed = Cardinality(ActuallyDeleted(before, after))
          /\ last'.a.updated = Cardinality(ActuallyMoved(before, after))]_vars

Held(bs) == {bs[i] : i \in 1..Len(bs)}
BelowEveryChange(line, contentChanges) ==
  \A k \in 1..Len(contentChanges) : line < contentChanges[k].startLine

\* C16: updateBookmarksForDocumentChanges(uri, changes) leaves every bookmark
\* of another file, and every bookmark of uri on a line below the startLine of
\* every change, in the list with the id, line, collectionId, description and
\* order it had; and every bookmark the call added back on a new line has the
\* collectionId and the description of a bookmark the file held before.
C16_ReconcileFrame ==
  [][(IsReconcile(last') /\ Len(bookmarks) > 0) =>
       LET uri == last'.a.uri
           changes == last'.a.contentChanges
       IN /\ \A b \in Held(bookmarks) :
               (b.uri # uri \/ BelowEveryChange(b.line, changes))
                 => b \in Held(bookmarks')
          /\ \A a \in Held(bookmarks') \ Held(bookmarks) :
               /\ a.uri = uri
               /\ \E b \in FileBookmarks(bookmarks, uri) :
                    /\ b.collectionId = a.collectionId
                    /\ b.description = a.description]_vars

\* a reconciliation has run on a list that holds a bookmark of another file,
\* a bookmark of the edited file above every change and one that was shifted
C16_Witness ==
  /\ IsReconcile(last)
  /\ \E b \in Held(bookmarks) : b.uri # last.a.uri
  /\ \E b \in FileBookmarks(bookmarks, last.a.uri) :
       /\ BelowEveryChange(b.line, last.a.contentChanges)
       /\ b.description = DescriptionOf(b.line)
  /\ \E b \in FileBookmarks(bookmarks, last.a.uri) :
       /\ b.description # DescriptionOf(b.line)
       /\ b.collectionId = 1

\* what the claim lists as a failure of structural validation
StructurallyInvalid(view) ==
  \/ view.version # "string"
  \/ view.exportDate # "string"
  \/ view.bookmarks # "array"
  \/ view.collections # "array"
  \/ \E k \in 1..Len(view.bookmarkEntries) :
       "undefined" \in {view.bookmarkEntries[k].uri, view.bookmarkEntries[k].line,
                        view.bookmarkEntries[k].createdAt}
  \/ \E k \in 1..Len(view.collectionEntries) :
       "undefined" \in {view.collectionEntries[k].id,
                        view.collectionEntries[k].name,
                        view.collectionEntries[k].createdAt}

\* C17: when the picked file fails structural validation, the import command,
\* whichever mode the user would have answered, leaves the bookmark list and
\* the collection list as they were and ends without reaching its save: it
\* does not enter the import loop and does not complete an import.
C17_InvalidFileRejected ==
  [][\A picked \in PickedFiles, mode \in ImportModes :
       (StructurallyInvalid(picked.view) /\ ImportOpen(picked, mode)) =>
         /\ UNCHANGED <<bookmarks, collections, nextId, nextCollectionId>>
         /\ imp' = Idle
         /\ last'.op = "importRejected"]_vars

\* a file with a missing entry key was rejected while both managers held
\* something
C17_Witness ==
  /\ last.op = "importRejected"
  /\ StructurallyInvalid(last.a.view)
  /\ last.a.view.version = "string"
  /\ last.a.view.bookmarks = "array"
  /\ Len(bookmarks) > 0
  /\ Len(collections) > 0

NoCounts == [importedCollections |-> 0, importedBookmarks |-> 0,
             skippedBookmarks |-> 0]
\* C18: in merge mode every step of the import keeps the bookmarks and the
\* collections that were held, unchanged and in place, and only appends. The
\* step that imports the collections adds no collection for an incoming id
\* that is already held and counts exactly the collections it added; the step
\* that imports one bookmark changes nothing and counts nothing when a
\* bookmark is already held at the incoming (uri, line), and otherwise counts
\* exactly the bookmark it added.
C18_MergeKeepsExisting ==
  [][/\ \A file \in ImportFiles :
          ImportBeginOp({file}, {"merge"}) =>
            LET counts == IF imp'.pc = "bookmarks" THEN imp'.counts
                          ELSE last'.a.counts
            IN /\ IsPrefix(collections, collections')
               /\ bookmarks' = bookmarks
               /\ counts.importedCollections = Len(collections') - Len(collections)
               /\ counts.importedBookmarks = 0
               /\ \A k \in 1..Len(file.collections) :
                    getCollection(collections, file.collections[k].id) # 0 =>
                      \A i \in (Len(collections) + 1)..Len(collections') :
                        collections'[i].id # file.collections[k].id
     /\ (imp.pc = "bookmarks" /\ imp.mode = "merge"
         /\ last'.op \in {"importBookmark", "import"}) =>
            LET counts == IF imp'.pc = "bookmarks" THEN imp'.counts
                          ELSE last'.a.counts
                incoming == Head(imp.rest)
                added == counts.importedBookmarks - imp.counts.importedBookmarks
            IN /\ IsPrefix(collections, collections')
               /\ IsPrefix(bookmarks, bookmarks')
               /\ counts.importedCollections = imp.counts.importedCollections
               /\ added = Len(bookmarks') - Len(bookmarks)
               /\ hasBookmark(bookmarks, makeUriAbsolute(folder, incoming.uri),
                              incoming.line) =>
                    (added = 0 /\ bookmarks' = bookmarks
                     /\ collections' = collections)]_vars

\* a merge import has skipped its collection, whose id is held, and then its
\* first bookmark, whose (uri, line) is held, counting neither
C18_Witness ==
  /\ last.op = "importBookmark"
  /\ last.a.mode = "merge"
  /\ last.ret = 0
  /\ imp.pc = "bookmarks"
  /\ imp.counts = NoCounts
  /\ Head(imp.rest).line = 2
  /\ getCollection(collections, ForeignId) # 0
  /\ Len(bookmarks) = 1
  /\ hasBookmark(bookmarks, FileIn, 1)

InCurrentWorkspace(b) == isBookmarkInCurrentWorkspace(folder, b)
InCurrentScope(c) == c.workspaceId = getCurrentWorkspaceId(folder)
\* C19: a replace import first removes the bookmarks and the collections of
\* the current workspace and keeps, unchanged, those of other workspaces, so
\* that the collections of the current scope are then imported ones; its
\* later steps only append; and when it has completed, every bookmark held
\* names a collection that is held.
C19_ReplaceClearsWorkspace ==
  [][/\ \A file \in ConsistentFiles :
          ImportBeginOp({file}, {"replace"}) =>
            /\ bookmarks' = SelectSeq(bookmarks, LAMBDA b : ~InCurrentWorkspace(b))
            /\ SelectSeq(collections', LAMBDA c : ~InCurrentScope(c))
                 = SelectSeq(collections, LAMBDA c : ~InCurrentScope(c))
            /\ \A c \in Held(collections') :
                 InCurrentScope(c) =>
                   \E k \in 1..Len(file.collections) : file.collections[k].id = c.id
     /\ (imp.pc = "bookmarks" /\ imp.mode = "replace"
         /\ last'.op \in {"importBookmark", "import"}) =>
            /\ IsPrefix(bookmarks, bookmarks')
            /\ IsPrefix(collections, collections')
     /\ (last'.op = "import" /\ last'.a.mode = "replace") =>
            \A b \in Held(bookmarks') :
              getCollection(collections', b.collectionId) # 0]_vars

IdsOf(s) == {s[i].id : i \in 1..Len(s)}
\* C20: exporting the state and importing the exported file in merge mode
\* into empty managers gives as many bookmarks and as many collections as
\* before, the same collection ids, the same bookmark ids, and for every
\* collection and every bookmark the order it had.
C20_RoundTrip ==
  [][last'.op = "exportThenImport" =>
       /\ Len(bookmarks') = Len(bookmarks)
       /\ Len(collections') = Len(collections)
       /\ IdsOf(collections') = IdsOf(collections)
       /\ IdsOf(bookmarks') = IdsOf(bookmarks)
       /\ \A c \in Held(collections) :
            \E d \in Held(collections') : d.id = c.id /\ d.order = c.order
       /\ \A b \in Held(bookmarks) :
            \E d \in Held(bookmarks') :
              d.uri = b.uri /\ d.line = b.line /\ d.order = b.order]_vars

\* the file of uri lies in the workspace folder f or below it
InsideFolder(f, uri) ==
  /\ f # Undefined
  /\ IsPrefix(UriPath(f) \o <<"/">>, UriPath(uri))

\* C21: the export writes a uri as a path relative to the workspace folder
\* exactly when the file lies inside the folder, and writes a uri outside the
\* folder as it is; importing what was written, in the same workspace, gives
\* the original uri.
C21_UriRoundTrip ==
  /\ last.op \in {"makeUriRelative", "makeUriAbsolute"} =>
       /\ ~HasScheme(last.a.exported) <=> InsideFolder(folder, last.a.uri)
       /\ ~InsideFolder(folder, last.a.uri) => last.a.exported = last.a.uri
  /\ last.op = "makeUriAbsolute" => last.a.imported = last.a.uri

\* C22: a save of an older snapshot does not complete after, and overwrite,
\* the save of a newer one: whenever every save that the commands issued has
\* completed, the persisted bookmark list is the bookmark list in memory.
C22_PersistedIsCurrent ==
  storage.inflight = <<>> => storage.bookmarks = bookmarks

\* the command classes whose execution has run to its end in a step
CommandClasses ==
  {"ToggleBookmarkCommand", "DeleteBookmarkCommand", "MoveBookmarkUpCommand",
   "MoveBookmarkDownCommand", "EditBookmarkDescriptionCommand",
   "MoveCollectionUpCommand", "MoveCollectionDownCommand",
   "CreateCollectionCommand", "DeleteCollectionCommand"}

\* the saves that a step issued
IssuedSaves ==
  SubSeq(storage'.inflight, Len(storage.inflight) + 1, Len(storage'.inflight))

\* C23: in every command that changes bookmarks or collections the save is
\* issued after the change and carries a list that includes it, so each save
\* a command issues carries the list its manager holds when the command
\* ends; a command whose change reports failure issues no save, a command
\* whose change succeeds issues one.
C23_SaveAfterMutation ==
  [][last'.op \in CommandClasses =>
       /\ \A k \in 1..Len(IssuedSaves) :
            IssuedSaves[k].list = IF IssuedSaves[k].kind = "bookmarks"
                                  THEN bookmarks' ELSE collections'
       /\ last'.ret = 0 => IssuedSaves = <<>>
       /\ last'.ret = 1 => IssuedSaves # <<>>]_vars

\* a bookmark was deleted by the command and the save of the shorter list is
\* in flight
C23_Witness ==
  /\ last.op = "DeleteBookmarkCommand"
  /\ last.ret = 1
  /\ storage.inflight = <<SaveBookmarks(bookmarks)>>
  /\ storage.bookmarks # bookmarks

\* C24: while updateBookmarksForDocumentChanges runs, the onBookmarksChanged
\* callback never runs with only a part of the batch's deletions and shifts
\* applied: every list it reads is the list before the edit or the fully
\* reconciled list.
C24_ObserverSeesWhole ==
  [][last'.op = "updateBookmarksForDocumentChanges" =>
       \A k \in 1..Len(last'.a.observed) :
         last'.a.observed[k] \in {bookmarks, bookmarks'}]_vars

\* the four methods give the same result for both forms of the workspace
SameScope(cs, id, t) ==
  LET key == getRelativeWorkspaceId(FolderW)
  IN /\ getCollectionsForWorkspace(cs, FolderW)
          = getCollectionsForWorkspace(cs, key)
     /\ ensureUngroupedCollection(cs, FolderW, t)
          = ensureUngroupedCollection(cs, key, t)
     /\ \A name \in Names :
          /\ hasCollectionByName(cs, name, FolderW)
               = hasCollectionByName(cs, name, key)
          /\ createCollection(cs, name, FolderW, id, t)
               = createCollection(cs, name, key, id, t)

C26_ToggleTwice ==
  [][last'.op = "toggleBookmark" =>
       LET k == Key(last'.a.uri, last'.a.line)
           keys == BookmarkedKeys(bookmarks)
       IN /\ k \in keys => BookmarkedKeys(bookmarks') = keys \ {k}
          /\ (k \notin keys
               /\ BookmarksInFile(bookmarks, k.uri) < maxBookmarksPerFile)
              => BookmarkedKeys(bookmarks') = keys \cup {k}
          /\ (last'.a.again
               /\ (k \in last.a.before
                   \/ Cardinality({b \in last.a.before : b.uri = k.uri})
                        < maxBookmarksPerFile))
              => BookmarkedKeys(bookmarks') = last.a.before]_vars

\* the second of two toggles of a line has put back the bookmark that the
\* first removed, beside another bookmark of the file
C26_Witness ==
  /\ last.op = "toggleBookmark"
  /\ last.a.again
  /\ last.ret # 0
  /\ Key(last.a.uri, last.a.line) \in BookmarkedKeys(bookmarks)
  /\ Cardinality(BookmarkedKeys(bookmarks)) = 2

\* C27: DeleteCollectionCommand on a collection that holds bookmarks: when the
\* user confirms, the collection and every bookmark whose collectionId is
\* that collection are removed, nothing else is, and both lists are saved;
\* when the user cancels, bookmarks and collections are unchanged and nothing
\* is saved.
C27_ConfirmOrCancel ==
  [][(cmd.pc = "confirm" /\ last'.op = "DeleteCollectionCommand") =>
       LET id == cmd.collectionId
       IN IF last'.a.result = "Delete"
          THEN /\ collections' = RemoveAt(collections,
                                          getCollection(collections, id))
               /\ bookmarks' = SelectSeq(bookmarks,
                                         LAMBDA b : b.collectionId # id)
               /\ IssuedSaves = <<SaveBookmarks(bookmarks'),
                                  SaveCollections(collections')>>
          ELSE /\ bookmarks' = bookmarks
               /\ collections' = collections
               /\ IssuedSaves = <<>>]_vars

\* the confirmed deletion of a collection that held a bookmark has ended and
\* its two saves are in flight
C27_Witness ==
  /\ last.op = "DeleteCollectionCommand"
  /\ "result" \in DOMAIN last.a
  /\ last.a.result = "Delete"
  /\ last.ret = 1
  /\ getCollection(collections, last.a.id) = 0
  /\ Len(storage.inflight) = 2

\* C28: moveBookmarkUp and moveBookmarkDown return false and change no order
\* value for a bookmark that was added without a collection id (a bookmark of
\* the ungrouped collection), whatever other bookmarks exist.
C28_UngroupedNotMoved ==
  [][(/\ last'.op \in {"moveBookmarkUp", "moveBookmarkDown"}
      /\ \E i \in 1..Len(bookmarks) :
           /\ bookmarks[i].uri = last'.a.uri
           /\ bookmarks[i].line = last'.a.line
           /\ bookmarks[i].collectionId = UngroupedId)
     => (last'.ret = 0 /\ bookmarks' = bookmarks)]_vars

\* C29: after any sequence of addBookmark, updateBookmarkDescription,
\* updateBookmarksForDocumentChanges and import, every bookmark's description
\* has at most 500 characters.
C29_DescriptionsBounded ==
  \A i \in 1..Len(bookmarks) :
    Len(bookmarks[i].description) <= MaxDescriptionLength

\* C30: whatever toggles, deletions and reconciliations ran while
\* AddBookmarkToCollectionCommand waited for its picker, the command does not
\* increase the number of bookmarks and creates no bookmark at a (uri, line)
\* that held none when its remove-then-add step started.
C30_MoveCreatesNothing ==
  [][(cmd.pc = "pick" /\ last'.op = "AddBookmarkToCollectionCommand") =>
       /\ Len(bookmarks') <= Len(bookmarks)
       /\ BookmarkedKeys(bookmarks') \subseteq BookmarkedKeys(bookmarks)]_vars

\* C31: whatever bookmarks were added to the collection or shifted by
\* reconciliation while DeleteCollectionCommand waited for the confirmation,
\* once the confirmed deletion has completed no bookmark is left whose
\* collectionId is the deleted collection.
C31_NoBookmarkLeft ==
  [][(/\ cmd.pc = "confirm"
      /\ last'.op = "DeleteCollectionCommand"
      /\ last'.a.result = "Delete"
      /\ last'.ret = 1)
     => \A i \in 1..Len(bookmarks') :
          bookmarks'[i].collectionId # cmd.collectionId]_vars

\* C32: bookmarks are on lines >= 1 and changes have 0 <= startLine <= endLine
\* and add no negative number of lines; then every bookmark line after
\* updateBookmarksForDocumentChanges is >= 1: the new line of a shifted
\* bookmark is strictly greater than the change's startLine, so the branch
\* that deletes a bookmark whose new line is negative is never taken.
C32_LinesStayPositive ==
  [][IsReconcile(last') =>
       /\ \A i \in 1..Len(bookmarks') : bookmarks'[i].line >= 1
       /\ \A k \in 1..Len(last'.a.contentChanges) :
            \A l \in LinesOf(bookmarks, last'.a.uri) :
              LET change == last'.a.contentChanges[k]
              IN l > change.endLine =>
                   /\ NewLine(l, change) > change.startLine
                   /\ NewLine(l, change) >= 0]_vars

\* the deletion of lines 0 to 1 has moved a bookmark up to line 1
C32_Witness ==
  /\ IsReconcile(last)
  /\ last.a.contentChanges = <<[startLine |-> 0, endLine |-> 1, text |-> <<>>]>>
  /\ last.a.updated > 0
  /\ \E i \in 1..Len(bookmarks) : bookmarks[i].line = 1

\* C33: no two collections held by CollectionManager have the same id, so
\* that getCollection, deleteCollection, moveCollectionUp and
\* moveCollectionDown designate a single collection, also when ungrouped
\* collections have been ensured for more than one workspace scope.
C33_CollectionIdsUnique ==
  \A i, j \in 1..Len(collections) :
    collections[i].id = collections[j].id => i = j

\* C34: the numbers of imported bookmarks and collections that
\* ImportBookmarksCommand reports are the numbers of bookmarks and collections
\* that the import added to the managers, in replace and in merge mode: the
\* step that imports the collections counts the collections it added to the
\* list (in replace mode, to the list left after the clearing), and a step
\* that imports a bookmark counts one exactly when it added one.
C34_CountsAreAdditions ==
  [][/\ (imp.pc = "idle" /\ last'.op \in {"importBegin", "import"}) =>
          LET counts == IF imp'.pc = "bookmarks" THEN imp'.counts
                        ELSE last'.a.counts
              mode == IF imp'.pc = "bookmarks" THEN imp'.mode ELSE last'.a.mode
              kept == IF mode = "replace"
                      THEN clearCollectionsForWorkspace(
                             collections, getCurrentWorkspaceId(folder))
                      ELSE collections
          IN counts.importedCollections = Len(collections') - Len(kept)
     /\ (imp.pc = "bookmarks" /\ last'.op \in {"importBookmark", "import"}) =>
          LET counts == IF imp'.pc = "bookmarks" THEN imp'.counts
                        ELSE last'.a.counts
          IN /\ counts.importedBookmarks - imp.counts.importedBookmarks
                  = Len(bookmarks') - Len(bookmarks)
             /\ counts.importedCollections = imp.counts.importedCollections
                  + (Len(collections') - Len(collections))]_vars

\* C35: two workspace locations with different paths resolve to different
\* scopes: a collection created for one is not returned by
\* getCollectionsForWorkspace of the other, a name created for one does not
\* make createCollection of that name for the other return null, and
\* ensureUngroupedCollection returns distinct objects for them.
C35_PathsAreScopes ==
  [][/\ (last'.op = "createCollection" /\ last'.ret # 0) =>
          \A g \in WorkspaceLocations \ {last'.a.workspaceId} :
            last'.ret \notin Range(getCollectionsForWorkspace(collections', g))
     /\ (/\ last.op = "createCollection" /\ last.ret # 0
         /\ last'.op = "createCollection"
         /\ last'.a.name = last.a.name
         /\ last'.a.workspaceId # last.a.workspaceId) => last'.ret # 0
     /\ \A f \in WorkspaceLocations : \A g \in WorkspaceLocations \ {f} :
          LET first == ensureUngroupedCollection(collections', f, now)
          IN ensureUngroupedCollection(first.c, g, now).ret # first.ret]_vars

\* C36: BookmarkManager invokes the onBookmarksChanged callback after every
\* addBookmark, removeBookmark, updateBookmarkDescription, moveBookmarkUp and
\* moveBookmarkDown that succeeds, when the state change is complete (the
\* callback reads the list the call leaves), and never for a call that
\* returns null or false.
C36_CallbackOnSuccessOnly ==
  [][last'.op \in {"addBookmark", "removeBookmark", "updateBookmarkDescription",
                   "moveBookmarkUp", "moveBookmarkDown"} =>
       /\ last'.ret # 0 => last'.a.observed = <<bookmarks'>>
       /\ last'.ret = 0 => (last'.a.observed = <<>> /\ bookmarks' = bookmarks)]_vars

\* a bookmark has been moved up and the callback has read the renumbered list
C36_Witness ==
  /\ last.op = "moveBookmarkUp"
  /\ last.ret # 0
  /\ last.a.observed = <<bookmarks>>
  /\ \E i \in 1..Len(bookmarks) :
       /\ bookmarks[i].line = last.a.line
       /\ bookmarks[i].order = 0
       /\ i > 1

\* C37: GoToNextBookmarkCommand selects the first bookmark after the cursor in
\* the (uri, line) order of its sorted list and wraps to the first bookmark
\* when none follows; hence repeating the command, each time from the
\* bookmark just reached, visits every bookmark before it returns to one
\* already visited.
C37_VisitsEveryBookmark ==
  [][(last.op = "GoToNextBookmarkCommand"
      /\ last'.op = "GoToNextBookmarkCommand") =>
       LET sorted == sortedBookmarks(bookmarks)
           from == FindIndex(sorted, LAMBDA i : i = last.ret)
       IN /\ last'.ret = sorted[IF from = Len(sorted) THEN 1 ELSE from + 1]
          /\ Key(last'.a.uri, last'.a.line) \in last.a.visited
               => last.a.visited = BookmarkedKeys(bookmarks)]_vars

====
